---- MODULE Spec2Model ----
(***************************************************************************)
(* X-Ray trace capture: the instrumentation client (src/src/xray-sdk/      *)
(* index.js), the network boundary between client and API, and the         *)
(* in-memory trace store with its filter-elimination query                 *)
(* (src/api/server.js).                                                    *)
(*                                                                         *)
(* Conventions of the model                                                *)
(*  - a JS array argument is a record [kind |-> "array", items |-> seq];   *)
(*    a missing (undefined) argument is [kind |-> "missing"]; a Summary is *)
(*    [kind |-> "summary", ...] and stands for the object literal with     *)
(*    _summarized: true;                                                   *)
(*  - an optional numeric argument is a sequence of length <= 1: <<>> is   *)
(*    undefined, <<n>> is the number n;                                    *)
(*  - generated ids (run_<time>_<random>, step_<time>_<random>) are fresh  *)
(*    positive integers, 0 stands for null;                                *)
(*  - array elements are objects over the keys score/name, or the          *)
(*    undefined element of a sparse Array(n); arrays that mix objects with *)
(*    null/undefined elements are outside the enumerated inputs.           *)
(***************************************************************************)
EXTENDS Integers, Sequences, FiniteSets, TLC

----------------------------------------------------------------------------
(* Bounds of the model *)

MaxLen == 3        \* longest array enumerated for the pure operators
MaxCalls == 4      \* client calls in one behaviour

(* Program constants *)

DefaultLimit == 100
DefaultBatchSize == 10
DefaultThreshold == 90

----------------------------------------------------------------------------
(* JS values *)

Num(n) == [t |-> "number", v |-> n]
Str == [t |-> "string", v |-> 0]
Absent == [t |-> "absent", v |-> 0]

Keys == {"score", "name"}

ItemA == [kind |-> "object", score |-> Num(1), name |-> Absent]
ItemB == [kind |-> "object", score |-> Num(3), name |-> Str]
UndefItem == [kind |-> "undefined"]
NullItem == [kind |-> "null"]

Items == {ItemA, ItemB}

Missing == [kind |-> "missing"]
Arr(s) == [kind |-> "array", items |-> s]
NullValue == [kind |-> "null"]

Min(a, b) == IF a <= b THEN a ELSE b
Max(a, b) == IF a >= b THEN a ELSE b

\* Array(n): a sparse array of n empty slots
ArrayOf(n) == Arr([i \in 1..n |-> UndefItem])

SeqsUpTo(S, n) == UNION {[1..k -> S] : k \in 0..n}

----------------------------------------------------------------------------
(* ArraySummarizer: XRaySDK._summarizeIfLarge / _computeSummary *)

\* Array.prototype.slice(0, end)
Slice0(s, end) ==
  LET e == IF end < 0 THEN Max(Len(s) + end, 0) ELSE Min(end, Len(s))
  IN SubSeq(s, 1, e)

RECURSIVE SeqSum(_)
SeqSum(s) == IF s = <<>> THEN 0 ELSE s[1] + SeqSum(Tail(s))

SeqRange(s) == {s[i] : i \in 1..Len(s)}

\* array.map(item => item[key]).filter(v => typeof v === 'number')
NumericValues(items, key) ==
  LET RECURSIVE Go(_)
      Go(s) == IF s = <<>> THEN <<>>
               ELSE IF s[1][key].t = "number"
                    THEN <<s[1][key].v>> \o Go(Tail(s))
                    ELSE Go(Tail(s))
  IN Go(items)

StatsOf(values) ==
  [min |-> CHOOSE m \in SeqRange(values) : \A w \in SeqRange(values) : m <= w,
   max |-> CHOOSE m \in SeqRange(values) : \A w \in SeqRange(values) : m >= w,
   avg |-> [sum |-> SeqSum(values), n |-> Len(values)]]

ComputeSummary(items) ==
  IF Len(items) = 0 THEN NullValue
  ELSE LET firstItem == items[1]
       IN IF firstItem.kind = "object"
          THEN LET keys == {k \in Keys : firstItem[k].t # "absent"}
                   numeric == {k \in keys : Len(NumericValues(items, k)) > 0}
               IN IF numeric # {}
                  THEN [kind |-> "object",
                        stats |-> [k \in numeric |-> StatsOf(NumericValues(items, k))]]
                  ELSE NullValue
          ELSE NullValue

\* Faulty variant: the statistics are computed over the sample
SummarizeIfLarge_SampleStats(array, limitArg) ==
  LET limit == IF limitArg = <<>> THEN DefaultLimit ELSE limitArg[1]
  IN IF array.kind # "array" THEN array
     ELSE IF Len(array.items) <= limit THEN array
     ELSE [kind |-> "summary",
           total |-> Len(array.items),
           sample |-> Slice0(array.items, limit),
           sampleSize |-> limit,
           summary |-> ComputeSummary(Slice0(array.items, limit))]

SummarizeIfLarge(array, limitArg) ==
  LET limit == IF limitArg = <<>> THEN DefaultLimit ELSE limitArg[1]
  IN IF array.kind # "array" THEN array
     ELSE IF Len(array.items) <= limit THEN array
     ELSE [kind |-> "summary",
           total |-> Len(array.items),
           sample |-> Slice0(array.items, limit),
           sampleSize |-> limit,
           summary |-> ComputeSummary(array.items)]

----------------------------------------------------------------------------
(* The wire: JSON.stringify on the client, bodyParser.json on the server.  *)
(* An undefined array element is written as null; a property whose value   *)
(* is undefined is not written at all (the field stays missing).           *)

JsonItem(item) == IF item.kind = "undefined" THEN NullItem ELSE item

JsonItems(s) == [i \in 1..Len(s) |-> JsonItem(s[i])]

JsonValue(v) ==
  IF v.kind = "array" THEN Arr(JsonItems(v.items))
  ELSE IF v.kind = "summary" THEN [v EXCEPT !.sample = JsonItems(v.sample)]
  ELSE v

JsonEvent(e) ==
  IF e.type = "step"
  THEN [e EXCEPT !.data.candidates = JsonValue(e.data.candidates),
                 !.data.filtered = JsonValue(e.data.filtered)]
  ELSE e

JsonRoundTrip(events) == [i \in 1..Len(events) |-> JsonEvent(events[i])]

----------------------------------------------------------------------------
(* Trace store: POST /api/ingest.  A JS Map keeps its keys in insertion    *)
(* order and Map.set on an existing key replaces the value in place, so a  *)
(* map is a sequence of records with distinct keys.                        *)

IndexOfRun(runs, id) ==
  IF \E i \in 1..Len(runs) : runs[i].runId = id
  THEN CHOOSE i \in 1..Len(runs) : runs[i].runId = id
  ELSE 0

IndexOfStep(stepMap, id) ==
  IF \E i \in 1..Len(stepMap) : stepMap[i].stepId = id
  THEN CHOOSE i \in 1..Len(stepMap) : stepMap[i].stepId = id
  ELSE 0

IndexOfPipeline(idx, p) ==
  IF \E i \in 1..Len(idx) : idx[i].pipeline = p
  THEN CHOOSE i \in 1..Len(idx) : idx[i].pipeline = p
  ELSE 0

\* Faulty variant: a new Run adopts the stored Steps that name its runId
IngestRunStart_AdoptsSteps(st, data) ==
  LET run == [runId |-> data.runId, pipeline |-> data.pipeline,
              startTime |-> data.timestamp,
              steps |-> SelectSeq(st.steps, LAMBDA s : s.runId = data.runId),
              status |-> "running", duration |-> <<>>, endTime |-> <<>>]
      i == IndexOfRun(st.runs, data.runId)
      j == IndexOfPipeline(st.runsByPipeline, data.pipeline)
  IN [st EXCEPT
        !.runs = IF i = 0 THEN Append(@, run) ELSE [@ EXCEPT ![i] = run],
        !.runsByPipeline =
           IF j = 0
           THEN Append(@, [pipeline |-> data.pipeline, runIds |-> <<data.runId>>])
           ELSE [@ EXCEPT ![j].runIds = Append(@, data.runId)]]

\* Faulty variant: a runId already in the pipeline's index is not appended
IngestRunStart_Dedup(st, data) ==
  LET run == [runId |-> data.runId, pipeline |-> data.pipeline,
              startTime |-> data.timestamp, steps |-> <<>>,
              status |-> "running", duration |-> <<>>, endTime |-> <<>>]
      i == IndexOfRun(st.runs, data.runId)
      j == IndexOfPipeline(st.runsByPipeline, data.pipeline)
  IN [st EXCEPT
        !.runs = IF i = 0 THEN Append(@, run) ELSE [@ EXCEPT ![i] = run],
        !.runsByPipeline =
           IF j = 0
           THEN Append(@, [pipeline |-> data.pipeline, runIds |-> <<data.runId>>])
           ELSE IF \E k \in 1..Len(@[j].runIds) : @[j].runIds[k] = data.runId
           THEN @
           ELSE [@ EXCEPT ![j].runIds = Append(@, data.runId)]]

\* case 'run_start'
IngestRunStart(st, data) ==
  LET run == [runId |-> data.runId, pipeline |-> data.pipeline,
              startTime |-> data.timestamp, steps |-> <<>>,
              status |-> "running", duration |-> <<>>, endTime |-> <<>>]
      i == IndexOfRun(st.runs, data.runId)
      j == IndexOfPipeline(st.runsByPipeline, data.pipeline)
  IN [st EXCEPT
        !.runs = IF i = 0 THEN Append(@, run) ELSE [@ EXCEPT ![i] = run],
        !.runsByPipeline =
           IF j = 0
           THEN Append(@, [pipeline |-> data.pipeline, runIds |-> <<data.runId>>])
           ELSE [@ EXCEPT ![j].runIds = Append(@, data.runId)]]

\* Faulty variant: the step is stored but not added to its run
IngestStep_NoAppend(st, data) ==
  LET k == IndexOfStep(st.steps, data.stepId)
  IN [st EXCEPT
        !.steps = IF k = 0 THEN Append(@, data) ELSE [@ EXCEPT ![k] = data]]

\* Faulty variant: the step is put in front of the run's step list
IngestStep_Prepend(st, data) ==
  LET k == IndexOfStep(st.steps, data.stepId)
      i == IndexOfRun(st.runs, data.runId)
  IN [st EXCEPT
        !.steps = IF k = 0 THEN Append(@, data) ELSE [@ EXCEPT ![k] = data],
        !.runs = IF i = 0 THEN @ ELSE [@ EXCEPT ![i].steps = <<data>> \o @]]

\* case 'step'
IngestStep(st, data) ==
  LET k == IndexOfStep(st.steps, data.stepId)
      i == IndexOfRun(st.runs, data.runId)
  IN [st EXCEPT
        !.steps = IF k = 0 THEN Append(@, data) ELSE [@ EXCEPT ![k] = data],
        !.runs = IF i = 0 THEN @ ELSE [@ EXCEPT ![i].steps = Append(@, data)]]

\* Faulty variant: a finished Run is removed from the runs map
IngestRunEnd_Evicts(st, data) ==
  [st EXCEPT !.runs = SelectSeq(@, LAMBDA r : r.runId # data.runId)]

\* Faulty variant: run_end for an unknown runId creates the finished Run
IngestRunEnd_Upsert(st, data) ==
  LET i == IndexOfRun(st.runs, data.runId)
  IN IF i = 0
     THEN [st EXCEPT !.runs =
             Append(@, [runId |-> data.runId, pipeline |-> "",
                        startTime |-> 0, steps |-> <<>>,
                        status |-> data.status,
                        duration |-> <<data.duration>>,
                        endTime |-> <<data.timestamp>>])]
     ELSE [st EXCEPT !.runs[i].status = data.status,
                     !.runs[i].duration = <<data.duration>>,
                     !.runs[i].endTime = <<data.timestamp>>]

\* Faulty variant: run_end closes the oldest run, whatever its runId
IngestRunEnd_AnyRun(st, data) ==
  IF Len(st.runs) = 0 THEN st
  ELSE [st EXCEPT !.runs[1].status = data.status,
                  !.runs[1].duration = <<data.duration>>,
                  !.runs[1].endTime = <<data.timestamp>>]

\* case 'run_end'
IngestRunEnd(st, data) ==
  LET i == IndexOfRun(st.runs, data.runId)
  IN IF i = 0 THEN st
     ELSE [st EXCEPT !.runs[i].status = data.status,
                     !.runs[i].duration = <<data.duration>>,
                     !.runs[i].endTime = <<data.timestamp>>]

IngestEvent(st, event) ==
  IF event.type = "run_start" THEN IngestRunStart(st, event.data)
  ELSE IF event.type = "step" THEN IngestStep(st, event.data)
  ELSE IF event.type = "run_end" THEN IngestRunEnd(st, event.data)
  ELSE st

\* events.forEach(...)
RECURSIVE Ingest(_, _)
\* Faulty variant: the events of a batch are applied last to first
RECURSIVE Ingest_Reversed(_, _)
Ingest_Reversed(st, events) ==
  IF events = <<>> THEN st
  ELSE IngestEvent(Ingest_Reversed(st, Tail(events)), Head(events))

Ingest(st, events) ==
  IF events = <<>> THEN st
  ELSE Ingest(IngestEvent(st, Head(events)), Tail(events))

----------------------------------------------------------------------------
(* Query engine: GET /api/query/filter-elimination *)

Truthy(v) == v.kind # "missing"

\* Faulty variant: a Summary is counted by its sample, not by its total
TotalOf_Sample(v) == IF v.kind = "summary" THEN Len(v.sample) ELSE Len(v.items)

\* step.x._summarized ? step.x.total : step.x.length
TotalOf(v) == IF v.kind = "summary" THEN v.total ELSE Len(v.items)

\* parseFloat(threshold), threshold = 90 by default
ThresholdOf(thresholdArg) ==
  IF thresholdArg = <<>> THEN DefaultThreshold ELSE thresholdArg[1]

\* Faulty variant: a step whose two totals are both 0 is compared as well
StepMatches_NoZeroGuard(run, step, thresholdArg) ==
  IF step.type = "filter" /\ Truthy(step.candidates) /\ Truthy(step.filtered)
  THEN LET totalCandidates == TotalOf(step.candidates)
           totalFiltered == TotalOf(step.filtered)
           totalInput == totalCandidates + totalFiltered
       IN IF totalFiltered * 100 >= ThresholdOf(thresholdArg) * totalInput
          THEN << [runId |-> run.runId, pipeline |-> run.pipeline,
                   stepId |-> step.stepId, stepName |-> step.name,
                   eliminationRate |-> [num |-> totalFiltered * 100,
                                        den |-> totalInput],
                   candidatesIn |-> totalCandidates,
                   candidatesOut |-> totalInput - totalFiltered,
                   filteredOut |-> totalFiltered] >>
          ELSE <<>>
  ELSE <<>>

\* The matches one step contributes (none or one).  The rate and the
\* threshold are quotients of small integers, so the floating-point test
\* totalFiltered / totalInput >= threshold / 100 is the exact test below.
StepMatches(run, step, thresholdArg) ==
  IF step.type = "filter" /\ Truthy(step.candidates) /\ Truthy(step.filtered)
  THEN LET totalCandidates == TotalOf(step.candidates)
           totalFiltered == TotalOf(step.filtered)
           totalInput == totalCandidates + totalFiltered
       IN IF totalInput > 0
             /\ totalFiltered * 100 >= ThresholdOf(thresholdArg) * totalInput
          THEN << [runId |-> run.runId, pipeline |-> run.pipeline,
                   stepId |-> step.stepId, stepName |-> step.name,
                   eliminationRate |-> [num |-> totalFiltered * 100,
                                        den |-> totalInput],
                   candidatesIn |-> totalCandidates,
                   candidatesOut |-> totalInput - totalFiltered,
                   filteredOut |-> totalFiltered] >>
          ELSE <<>>
  ELSE <<>>

RECURSIVE RunMatches(_, _, _)
RunMatches(run, stepList, thresholdArg) ==
  IF stepList = <<>> THEN <<>>
  ELSE StepMatches(run, Head(stepList), thresholdArg)
       \o RunMatches(run, Tail(stepList), thresholdArg)

\* pipelineArg is "" when the parameter is absent (an empty string is falsy)
RECURSIVE FilterElimination(_, _, _)
FilterElimination(runList, thresholdArg, pipelineArg) ==
  IF runList = <<>> THEN <<>>
  ELSE (IF pipelineArg = "" \/ Head(runList).pipeline = pipelineArg
        THEN RunMatches(Head(runList), Head(runList).steps, thresholdArg)
        ELSE <<>>)
       \o FilterElimination(Tail(runList), thresholdArg, pipelineArg)

----------------------------------------------------------------------------
(* State *)

VARIABLES
  enabled,         \* XRaySDK.enabled
  batchSize,       \* XRaySDK.batchSize
  runId,           \* XRaySDK.runId (0 = null)
  startTime,       \* XRaySDK.startTime
  steps,           \* XRaySDK.steps
  pendingEvents,   \* XRaySDK.pendingEvents
  inflight,        \* ingest requests sent and not yet answered
  completed,       \* requests that were answered, in the order of the answers
  awaiting,        \* id of the request the pipeline code awaits (0 = none)
  calls,           \* the calls the pipeline code has made, in order
  ret,             \* value returned by the last call (0 = null/undefined)
  nextId,          \* source of fresh ids
  emitted,         \* the events pushed on pendingEvents so far, in order
  runs,            \* server: runs (Map runId -> run)
  stepMap,         \* server: steps (Map stepId -> step)
  runsByPipeline,  \* server: runsByPipeline (Map pipeline -> [runIds])
  probe,           \* inputs of the pure operators under check
  probeOut         \* their results

clientVars == <<enabled, batchSize, runId, startTime, steps, pendingEvents>>
netVars == <<inflight, completed, awaiting>>
callVars == <<calls, ret, nextId, emitted>>
storeVars == <<runs, stepMap, runsByPipeline>>
probeVars == <<probe, probeOut>>
vars == <<clientVars, netVars, callVars, storeVars, probeVars>>

Store == [runs |-> runs, steps |-> stepMap, runsByPipeline |-> runsByPipeline]

\* The clock read by Date.now() / new Date(): it advances with every call.
Now == Len(calls) + 1

----------------------------------------------------------------------------
(* Inputs *)

Pipelines == {"p"}
Statuses == {"success", "error"}
BatchSizes == {1, 2, DefaultBatchSize}

StepInputNames == {"e2e", "rank", "tiny"}

\* The argument of recordStep, by name
StepInput(name) ==
  CASE name = "e2e" ->
         [name |-> name, type |-> "filter",
          candidates |-> ArrayOf(30), candidateLimit |-> <<>>,
          filtered |-> ArrayOf(4970), filteredLimit |-> <<>>]
    [] name = "rank" ->
         [name |-> name, type |-> "rank",
          candidates |-> Arr(<<ItemA, ItemB>>), candidateLimit |-> <<1>>,
          filtered |-> Missing, filteredLimit |-> <<>>]
    [] OTHER ->
         [name |-> name, type |-> "filter",
          candidates |-> Arr(<<ItemB>>), candidateLimit |-> <<0>>,
          filtered |-> Arr(<<ItemA, ItemB, ItemA>>), filteredLimit |-> <<2>>]

NoProbe == [c |-> Missing, cl |-> <<>>, f |-> Missing, fl |-> <<>>,
            type |-> "filter", th |-> <<>>]
NoProbeOut == [done |-> FALSE]

----------------------------------------------------------------------------
(* Delivery batcher: XRaySDK._sendEvent / _flushEvents *)

\* Faulty variant: no early return on an empty buffer, an empty batch is sent
FlushEvents_NoGuard(pending) ==
  [pendingEvents |-> <<>>, batch |-> pending, sent |-> TRUE]

\* Faulty variant: the buffer is copied for sending but not cleared
FlushEvents_NoClear(pending) ==
  IF Len(pending) = 0
  THEN [pendingEvents |-> pending, batch |-> <<>>, sent |-> FALSE]
  ELSE [pendingEvents |-> pending, batch |-> pending, sent |-> TRUE]

\* Faulty variant: _flushEvents returns early on a disabled client
FlushEvents_WhenEnabled(pending) ==
  IF Len(pending) = 0 \/ ~enabled
  THEN [pendingEvents |-> pending, batch |-> <<>>, sent |-> FALSE]
  ELSE [pendingEvents |-> <<>>, batch |-> pending, sent |-> TRUE]

\* Synchronous part of _flushEvents: swap the buffer out and start the fetch
FlushEvents(pending) ==
  IF Len(pending) = 0
  THEN [pendingEvents |-> pending, batch |-> <<>>, sent |-> FALSE]
  ELSE [pendingEvents |-> <<>>, batch |-> pending, sent |-> TRUE]

\* Faulty variant: startRun/recordStep/endRun do not test the enabled flag
Inactive_NoEnabledTest(op) ==
  IF op = "startRun" THEN FALSE ELSE runId = 0

\* Faulty variant: recordStep and endRun do not test for an active run
Inactive_NoRunTest(op) == ~enabled

\* The early returns of startRun (line 17), recordStep (39) and endRun (66)
Inactive(op) ==
  IF op = "startRun" THEN ~enabled ELSE ~enabled \/ runId = 0

\* Faulty variant: the flush starts only when the buffer exceeds batchSize
SendEvent_FlushLate(en, pending, size, event) ==
  IF ~en
  THEN [pendingEvents |-> pending, batch |-> <<>>, sent |-> FALSE,
        pushed |-> <<>>]
  ELSE LET p == Append(pending, event)
       IN IF Len(p) > size
          THEN FlushEvents(p) @@ [pushed |-> <<event>>]
          ELSE [pendingEvents |-> p, batch |-> <<>>, sent |-> FALSE,
                pushed |-> <<event>>]

\* Synchronous part of _sendEvent
\* (pushed: the event went on the buffer)
SendEvent(en, pending, size, event) ==
  IF ~en
  THEN [pendingEvents |-> pending, batch |-> <<>>, sent |-> FALSE,
        pushed |-> <<>>]
  ELSE LET p == Append(pending, event)
       IN IF Len(p) >= size
          THEN FlushEvents(p) @@ [pushed |-> <<event>>]
          ELSE [pendingEvents |-> p, batch |-> <<>>, sent |-> FALSE,
                pushed |-> <<event>>]

Event(eventType, data) ==
  [type |-> eventType, data |-> data, timestamp |-> Now, seq |-> nextId]

\* The fetch started by a flush: kind is "auto" (from _sendEvent) or "flush"
Launch(r, kind) ==
  IF r.sent
  THEN inflight \cup {[id |-> nextId, events |-> r.batch, kind |-> kind]}
  ELSE inflight

\* Faulty variant: the emitting call waits for the request it started
Suspends_AwaitsSend(op, awaited, r) == r.sent /\ (op = "flush" => awaited)

\* Does the pipeline code wait for the request it has just caused?
\* startRun/recordStep/endRun do not await _sendEvent; flush() is awaited
\* when the caller chooses to.
Suspends(op, awaited, r) == op = "flush" /\ awaited /\ r.sent

CanCall == awaiting = 0 /\ Len(calls) < MaxCalls

Called(op, arg) == calls' = Append(calls, [op |-> op, arg |-> arg])

----------------------------------------------------------------------------
(* Instrumentation client *)

\* Faulty variant: startRun on an active run keeps the earlier run's id and
\* its step buffer
StartRun_KeepsRun(pipeline) ==
  /\ CanCall
  /\ Called("startRun", pipeline)
  /\ nextId' = nextId + 1
  /\ IF Inactive("startRun")
     THEN /\ ret' = 0
          /\ UNCHANGED <<runId, startTime, steps, pendingEvents, inflight,
                         awaiting, emitted>>
     ELSE LET id == IF runId = 0 THEN nextId ELSE runId
              runContext == [runId |-> id, pipeline |-> pipeline,
                             timestamp |-> Now]
              r == SendEvent(enabled, pendingEvents, batchSize,
                             Event("run_start", runContext))
          IN /\ runId' = id
             /\ steps' = IF runId = 0 THEN <<>> ELSE steps
             /\ startTime' = Now
             /\ pendingEvents' = r.pendingEvents
             /\ inflight' = Launch(r, "auto")
             /\ awaiting' = IF Suspends("startRun", FALSE, r) THEN nextId ELSE 0
             /\ emitted' = emitted \o r.pushed
             /\ ret' = id
  /\ UNCHANGED <<enabled, batchSize, completed, storeVars, probeVars>>

StartRun(pipeline) ==
  /\ CanCall
  /\ Called("startRun", pipeline)
  /\ nextId' = nextId + 1
  /\ IF Inactive("startRun")
     THEN /\ ret' = 0
          /\ UNCHANGED <<runId, startTime, steps, pendingEvents, inflight,
                         awaiting, emitted>>
     ELSE LET runContext == [runId |-> nextId, pipeline |-> pipeline,
                             timestamp |-> Now]
              r == SendEvent(enabled, pendingEvents, batchSize,
                             Event("run_start", runContext))
          IN /\ runId' = nextId
             /\ steps' = <<>>
             /\ startTime' = Now
             /\ pendingEvents' = r.pendingEvents
             /\ inflight' = Launch(r, "auto")
             /\ awaiting' = IF Suspends("startRun", FALSE, r) THEN nextId ELSE 0
             /\ emitted' = emitted \o r.pushed
             /\ ret' = nextId
  /\ UNCHANGED <<enabled, batchSize, completed, storeVars, probeVars>>

\* Faulty variant: the step is emitted but not kept in the local buffer
RecordStep_NoBuffer(name) ==
  /\ CanCall
  /\ Called("recordStep", name)
  /\ nextId' = nextId + 1
  /\ IF Inactive("recordStep")
     THEN /\ ret' = 0
          /\ UNCHANGED <<steps, pendingEvents, inflight, awaiting, emitted>>
     ELSE LET step == StepInput(name)
              stepData ==
                [stepId |-> nextId, runId |-> runId, name |-> step.name,
                 type |-> step.type,
                 candidates |-> SummarizeIfLarge(step.candidates, step.candidateLimit),
                 filtered |-> SummarizeIfLarge(step.filtered, step.filteredLimit),
                 timestamp |-> Now]
              r == SendEvent(enabled, pendingEvents, batchSize,
                             Event("step", stepData))
          IN /\ steps' = steps
             /\ pendingEvents' = r.pendingEvents
             /\ inflight' = Launch(r, "auto")
             /\ awaiting' = IF Suspends("recordStep", FALSE, r) THEN nextId ELSE 0
             /\ emitted' = emitted \o r.pushed
             /\ ret' = nextId
  /\ UNCHANGED <<enabled, batchSize, runId, startTime, completed, storeVars, probeVars>>

RecordStep(name) ==
  /\ CanCall
  /\ Called("recordStep", name)
  /\ nextId' = nextId + 1
  /\ IF Inactive("recordStep")
     THEN /\ ret' = 0
          /\ UNCHANGED <<steps, pendingEvents, inflight, awaiting, emitted>>
     ELSE LET step == StepInput(name)
              stepData ==
                [stepId |-> nextId, runId |-> runId, name |-> step.name,
                 type |-> step.type,
                 candidates |-> SummarizeIfLarge(step.candidates, step.candidateLimit),
                 filtered |-> SummarizeIfLarge(step.filtered, step.filteredLimit),
                 timestamp |-> Now]
              r == SendEvent(enabled, pendingEvents, batchSize,
                             Event("step", stepData))
          IN /\ steps' = Append(steps, stepData)
             /\ pendingEvents' = r.pendingEvents
             /\ inflight' = Launch(r, "auto")
             /\ awaiting' = IF Suspends("recordStep", FALSE, r) THEN nextId ELSE 0
             /\ emitted' = emitted \o r.pushed
             /\ ret' = nextId
  /\ UNCHANGED <<enabled, batchSize, runId, startTime, completed, storeVars, probeVars>>

\* Faulty variant: endRun does not clear the current run
EndRun_KeepsRun(status) ==
  /\ CanCall
  /\ Called("endRun", status)
  /\ nextId' = nextId + 1
  /\ IF Inactive("endRun")
     THEN /\ ret' = 0
          /\ UNCHANGED <<runId, steps, pendingEvents, inflight, awaiting,
                         emitted>>
     ELSE LET runData == [runId |-> runId, status |-> status,
                          duration |-> Now - startTime,
                          stepCount |-> Len(steps), timestamp |-> Now]
              r == SendEvent(enabled, pendingEvents, batchSize,
                             Event("run_end", runData))
          IN /\ pendingEvents' = r.pendingEvents
             /\ inflight' = Launch(r, "auto")
             /\ awaiting' = IF Suspends("endRun", FALSE, r) THEN nextId ELSE 0
             /\ emitted' = emitted \o r.pushed
             /\ UNCHANGED <<runId, steps>>
             /\ ret' = runId
  /\ UNCHANGED <<enabled, batchSize, startTime, completed, storeVars, probeVars>>

EndRun(status) ==
  /\ CanCall
  /\ Called("endRun", status)
  /\ nextId' = nextId + 1
  /\ IF Inactive("endRun")
     THEN /\ ret' = 0
          /\ UNCHANGED <<runId, steps, pendingEvents, inflight, awaiting,
                         emitted>>
     ELSE LET runData == [runId |-> runId, status |-> status,
                          duration |-> Now - startTime,
                          stepCount |-> Len(steps), timestamp |-> Now]
              r == SendEvent(enabled, pendingEvents, batchSize,
                             Event("run_end", runData))
          IN /\ pendingEvents' = r.pendingEvents
             /\ inflight' = Launch(r, "auto")
             /\ awaiting' = IF Suspends("endRun", FALSE, r) THEN nextId ELSE 0
             /\ emitted' = emitted \o r.pushed
             /\ runId' = 0
             /\ steps' = <<>>
             /\ ret' = runId
  /\ UNCHANGED <<enabled, batchSize, startTime, completed, storeVars, probeVars>>

\* flush(), awaited by the caller or not
Flush(awaited) ==
  /\ CanCall
  /\ Called("flush", IF awaited THEN "awaited" ELSE "detached")
  /\ nextId' = nextId + 1
  /\ LET r == FlushEvents(pendingEvents)
     IN /\ pendingEvents' = r.pendingEvents
        /\ inflight' = Launch(r, "flush")
        /\ awaiting' = IF Suspends("flush", awaited, r) THEN nextId ELSE 0
  /\ ret' = 0
  /\ UNCHANGED <<enabled, batchSize, runId, startTime, steps, completed,
                 emitted, storeVars, probeVars>>

\* The caller turns instrumentation off: xray.enabled = false
Disable ==
  /\ CanCall
  /\ enabled
  /\ Called("disable", "")
  /\ enabled' = FALSE
  /\ UNCHANGED <<batchSize, runId, startTime, steps, pendingEvents, netVars,
                 ret, nextId, emitted, storeVars, probeVars>>

----------------------------------------------------------------------------
(* The network boundary and the asynchronous tail of _flushEvents *)

\* Faulty variant: no try/catch, a failed request rejects the promise
FlushEventsResult_Rethrows(ok) ==
  [handler |-> 0, state |-> IF ok THEN "resolved" ELSE "rejected"]

\* try { await fetch(...); if (!response.ok) throw ... } catch { onError }
\* handler: invocations of onError; state: how the promise settles
FlushEventsResult(ok) ==
  [handler |-> IF ok THEN 0 ELSE 1, state |-> "resolved"]

\* this._sendEvent(...).catch(this.onError)
SendEventChain(r) ==
  IF r.state = "rejected"
  THEN [handler |-> r.handler + 1, state |-> "resolved"]
  ELSE r

Settle(kind, ok) ==
  IF kind = "auto" THEN SendEventChain(FlushEventsResult(ok))
  ELSE FlushEventsResult(ok)

\* Faulty variant: the catch block puts the failed batch back on the buffer
PendingAfterFailure_Requeue(pending, batch) == batch \o pending

\* The catch block leaves this.pendingEvents alone
PendingAfterFailure(pending, batch) == pending

\* The request of batch b is answered: the server has ingested it and said
\* so (ok), or the request failed without reaching the store (~ok).
Respond(b, ok) ==
  /\ b \in inflight
  /\ inflight' = inflight \ {b}
  /\ LET st == IF ok THEN Ingest(Store, JsonRoundTrip(b.events)) ELSE Store
     IN /\ runs' = st.runs
        /\ stepMap' = st.steps
        /\ runsByPipeline' = st.runsByPipeline
  /\ LET s == Settle(b.kind, ok)
     IN completed' = Append(completed,
                       [id |-> b.id, kind |-> b.kind, events |-> b.events,
                        ok |-> ok, handler |-> s.handler, state |-> s.state])
  /\ pendingEvents' = IF ok THEN pendingEvents
                      ELSE PendingAfterFailure(pendingEvents, b.events)
  /\ awaiting' = IF awaiting = b.id THEN 0 ELSE awaiting
  /\ UNCHANGED <<enabled, batchSize, runId, startTime, steps, callVars, probeVars>>

Deliver == \E b \in inflight : Respond(b, TRUE)

Fail == \E b \in inflight : Respond(b, FALSE)

----------------------------------------------------------------------------
(* Specification of client, network and store *)

Init ==
  /\ enabled \in BOOLEAN
  /\ batchSize \in BatchSizes
  /\ runId = 0
  /\ startTime = 0
  /\ steps = <<>>
  /\ pendingEvents = <<>>
  /\ inflight = {}
  /\ completed = <<>>
  /\ awaiting = 0
  /\ calls = <<>>
  /\ ret = 0
  /\ nextId = 1
  /\ emitted = <<>>
  /\ runs = <<>>
  /\ stepMap = <<>>
  /\ runsByPipeline = <<>>
  /\ probe = NoProbe
  /\ probeOut = NoProbeOut

Next ==
  \/ \E p \in Pipelines : StartRun(p)
  \/ \E n \in StepInputNames : RecordStep(n)
  \/ \E s \in Statuses : EndRun(s)
  \/ \E a \in BOOLEAN : Flush(a)
  \/ Disable
  \/ Deliver
  \/ Fail

Spec == Init /\ [][Next]_vars

----------------------------------------------------------------------------
(* Specification of the pure operators: the summarizer applied to an array *)
(* and a limit, and the query applied to one filter step that reached the  *)
(* store summarized and to the same step stored raw.                       *)

Thresholds == {<<>>, <<0>>, <<50>>, <<100>>}
ProbeArrays == {Arr(s) : s \in SeqsUpTo(Items, MaxLen)}
ProbeLimits == {<<>>} \cup {<<n>> : n \in (0 - 2)..MaxLen}

ProbeInputs ==
  [c : ProbeArrays, cl : ProbeLimits, f : ProbeArrays, fl : ProbeLimits,
   type : {"filter"}, th : Thresholds]

EmptyStore == [runs |-> <<>>, steps |-> <<>>, runsByPipeline |-> <<>>]

ProbeStepData(type, c, f) ==
  [stepId |-> 2, runId |-> 1, name |-> "probe", type |-> type,
   candidates |-> c, filtered |-> f, timestamp |-> 2]

\* The store after one run with the one step has been delivered
ProbeStore(stepData) ==
  Ingest(EmptyStore,
         JsonRoundTrip(<<
           [type |-> "run_start",
            data |-> [runId |-> 1, pipeline |-> "p", timestamp |-> 1],
            timestamp |-> 1, seq |-> 1],
           [type |-> "step", data |-> stepData, timestamp |-> 2, seq |-> 2] >>))

ProbeQuery(stepData, thresholdArg) ==
  FilterElimination(ProbeStore(stepData).runs, thresholdArg, "")

InitProbe ==
  /\ enabled = TRUE
  /\ batchSize = DefaultBatchSize
  /\ runId = 0
  /\ startTime = 0
  /\ steps = <<>>
  /\ pendingEvents = <<>>
  /\ inflight = {}
  /\ completed = <<>>
  /\ awaiting = 0
  /\ calls = <<>>
  /\ ret = 0
  /\ nextId = 1
  /\ emitted = <<>>
  /\ runs = <<>>
  /\ stepMap = <<>>
  /\ runsByPipeline = <<>>
  /\ probe \in ProbeInputs
  /\ probeOut = NoProbeOut

\* recordStep's two calls of _summarizeIfLarge
ApplySummarize ==
  /\ ~probeOut.done
  /\ probeOut' = [done |-> TRUE, queried |-> FALSE,
                  candidates |-> SummarizeIfLarge(probe.c, probe.cl),
                  filtered |-> SummarizeIfLarge(probe.f, probe.fl)]
  /\ UNCHANGED <<clientVars, netVars, callVars, storeVars, probe>>

\* the query on the stored step, summarized and raw
ApplyQuery ==
  /\ probeOut.done
  /\ ~probeOut.queried
  /\ probeOut' =
       [probeOut EXCEPT
          !.queried = TRUE] @@
       [stored |-> ProbeQuery(ProbeStepData(probe.type, probeOut.candidates,
                                            probeOut.filtered), probe.th),
        raw |-> ProbeQuery(ProbeStepData(probe.type, probe.c, probe.f),
                           probe.th)]
  /\ UNCHANGED <<clientVars, netVars, callVars, storeVars, probe>>

NextProbe == ApplySummarize \/ ApplyQuery

SpecProbe == InitProbe /\ [][NextProbe]_vars

----------------------------------------------------------------------------
(* Claims about the summarizer *)

LimitOf(limitArg) == IF limitArg = <<>> THEN DefaultLimit ELSE limitArg[1]

IsPrefixOf(s, t) == Len(s) <= Len(t) /\ s = SubSeq(t, 1, Len(s))

\* C1: for every sequence S and every integer limit L, zero and negative
\* limits included, the summarizer returns S unchanged when |S| <= L and
\* otherwise a Summary with total = |S| whose sample is the first
\* min(|S|, L) elements of S in order (no element at all when L is
\* negative).
C1_Summarize ==
  probeOut.done =>
    LET S == probe.c.items
        L == LimitOf(probe.cl)
        out == probeOut.candidates
    IN IF Len(S) <= L THEN out = probe.c
       ELSE /\ out.kind = "summary"
            /\ out.total = Len(S)
            /\ Len(out.sample) = Max(Min(Len(S), L), 0)
            /\ IsPrefixOf(out.sample, S)

----------------------------------------------------------------------------
(* Claims about the filter-elimination query on summarized data *)

\* C3: summarization transparency.  For every filter step and every choice
\* of candidateLimit and filteredLimit, the filter-elimination query gives
\* the same matches (matched or not, candidatesIn, filteredOut, elimination
\* rate) for the step as recordStep stored it, summarized where an array
\* exceeds its limit, and for the same step stored with its raw arrays.
C3_Transparency ==
  (probeOut.done /\ probeOut.queried) => probeOut.stored = probeOut.raw

C3_Witness ==
  /\ probeOut.done
  /\ probeOut.queried
  /\ probeOut.candidates.kind = "summary"
  /\ probeOut.filtered.kind = "summary"
  /\ Len(probeOut.filtered.sample) < probeOut.filtered.total
  /\ Len(probeOut.stored) = 1
  /\ probeOut.stored[1].candidatesIn = Len(probe.c.items)
  /\ probeOut.stored[1].filteredOut = Len(probe.f.items)

----------------------------------------------------------------------------
(* Claims about client, network and store *)

Last(s) == s[Len(s)]

Call(op, arg) == [op |-> op, arg |-> arg]

BatchSeqs(events) == {events[i].seq : i \in 1..Len(events)}

CompletedSet == {completed[i] : i \in 1..Len(completed)}

\* The client as constructed with no configuration, never switched off
DefaultClient ==
  /\ batchSize = DefaultBatchSize
  /\ enabled
  /\ \A i \in 1..Len(calls) : calls[i].op # "disable"

\* Every request sent so far was answered, and answered with success
BackendAvailable ==
  /\ inflight = {}
  /\ \A c \in CompletedSet : c.ok

E2ECalls ==
  << Call("startRun", "p"), Call("recordStep", "e2e"), Call("endRun", "success") >>

\* Exactly one match, for the run of pipeline p, 30 in and 4970 filtered out
E2EResult(matches) ==
  /\ Len(matches) = 1
  /\ matches[1].pipeline = "p"
  /\ matches[1].candidatesIn = 30
  /\ matches[1].filteredOut = 4970

\* C2 (as stated): on a default client with an always-available backend,
\* after exactly the calls startRun(p), recordStep(filter, 30 candidates,
\* 4970 filtered), endRun(success), the filter-elimination query with
\* threshold 90 returns exactly one match, for the run of p, with
\* candidatesIn = 30 and filteredOut = 4970.
C2_AsStated ==
  (DefaultClient /\ BackendAvailable /\ calls = E2ECalls)
    => E2EResult(FilterElimination(runs, <<90>>, ""))

\* C2 (amended): after exactly those three calls the three events are still
\* in the pending buffer (3 < batchSize) and the query returns no match;
\* after a following flush() whose request was answered with success the
\* query with threshold 90 returns exactly one match, for the run of p,
\* with candidatesIn = 30 and filteredOut = 4970.
C2_EndToEnd ==
  (DefaultClient /\ BackendAvailable) =>
    /\ calls = E2ECalls =>
         /\ Len(pendingEvents) = 3
         /\ FilterElimination(runs, <<90>>, "") = <<>>
    /\ (\E a \in {"awaited", "detached"} :
          calls = Append(E2ECalls, Call("flush", a))) =>
         E2EResult(FilterElimination(runs, <<90>>, ""))

C2_Witness ==
  /\ DefaultClient
  /\ BackendAvailable
  /\ calls = Append(E2ECalls, Call("flush", "awaited"))
  /\ Len(completed) = 1
  /\ E2EResult(FilterElimination(runs, <<90>>, ""))
  /\ runs[1].steps[1].filtered.kind = "summary"
  /\ runs[1].status = "success"

ArrivalOf(id) ==
  IF \E k \in 1..Len(completed) :
       \E i \in 1..Len(completed[k].events) :
         /\ completed[k].events[i].type = "step"
         /\ completed[k].events[i].data.stepId = id
  THEN CHOOSE k \in 1..Len(completed) :
         \E i \in 1..Len(completed[k].events) :
           /\ completed[k].events[i].type = "step"
           /\ completed[k].events[i].data.stepId = id
  ELSE 0

\* C5 (as stated): the steps of a Run appear in its step list in the store
\* in the order they were recorded (step ids are issued in recording order),
\* however the events were split into batches and in whatever order
\* concurrently in-flight batches reach the store.
C5_AsStated ==
  \A r \in 1..Len(runs) :
    \A i, j \in 1..Len(runs[r].steps) :
      i < j => runs[r].steps[i].stepId < runs[r].steps[j].stepId

\* C5 (amended): the steps of a Run appear in its step list in the order in
\* which their batches reached the store, and in recording order within one
\* batch; so two steps are in recording order whenever the batches carrying
\* them reached the store in the order they were sent.
C5_ArrivalOrder ==
  \A r \in 1..Len(runs) :
    \A i, j \in 1..Len(runs[r].steps) :
      i < j =>
        LET si == runs[r].steps[i]
            sj == runs[r].steps[j]
            ai == ArrivalOf(si.stepId)
            aj == ArrivalOf(sj.stepId)
        IN /\ ai > 0
           /\ ai <= aj
           /\ completed[ai].id <= completed[aj].id => si.stepId < sj.stepId

\* two steps of one run that came in different batches, in the order sent
C5_Witness ==
  \E r \in 1..Len(runs) :
    /\ Len(runs[r].steps) = 2
    /\ ArrivalOf(runs[r].steps[1].stepId) < ArrivalOf(runs[r].steps[2].stepId)
    /\ runs[r].steps[1].stepId < runs[r].steps[2].stepId

\* C6: flush() with an empty pending buffer is a no-op: it starts no
\* request, invokes no error handler and leaves the client and the store as
\* they were, each time it is called.
C6_FlushEmptyNoop ==
  [][(/\ Len(calls') = Len(calls) + 1
      /\ Last(calls').op = "flush"
      /\ pendingEvents = <<>>)
     => UNCHANGED <<clientVars, netVars, storeVars, emitted>>]_vars

\* two flushes in a row: the second found the buffer empty
C6_Witness ==
  /\ Len(calls) = 3
  /\ calls[1].op = "startRun"
  /\ calls[2].op = "flush"
  /\ calls[3].op = "flush"
  /\ Len(emitted) = 1
  /\ pendingEvents = <<>>
  /\ Cardinality(inflight) = 1
  /\ completed = <<>>
  /\ \A b \in inflight : b.id = 2

\* The client was constructed with enabled = false (only the caller's
\* assignment changes the flag afterwards, and only to false)
ConstructedDisabled ==
  /\ ~enabled
  /\ \A i \in 1..Len(calls) : calls[i].op # "disable"

StoreEmpty == runs = <<>> /\ stepMap = <<>> /\ runsByPipeline = <<>>

\* C7: disabled mode.  On a client constructed with enabled = false, after
\* any sequence of startRun, recordStep, endRun and flush calls, the last
\* call returned null/nothing, no run is active, nothing was buffered or
\* emitted, no delivery was attempted and the store received no event.
C7_DisabledMode ==
  ConstructedDisabled =>
    /\ ret = 0
    /\ runId = 0
    /\ steps = <<>>
    /\ pendingEvents = <<>>
    /\ emitted = <<>>
    /\ inflight = {}
    /\ completed = <<>>
    /\ StoreEmpty

C7_Witness ==
  /\ ConstructedDisabled
  /\ Len(calls) = 4
  /\ {calls[i].op : i \in 1..4} = {"startRun", "recordStep", "endRun", "flush"}
  /\ ret = 0
  /\ StoreEmpty

EmittedSeqs == BatchSeqs(emitted)

\* The number of places that hold the event of sequence number q
Places(q) ==
  Cardinality({i \in 1..Len(pendingEvents) : pendingEvents[i].seq = q})
  + Cardinality({p \in inflight \X (1..Len(emitted)) :
                   /\ p[2] <= Len(p[1].events)
                   /\ p[1].events[p[2]].seq = q})
  + Cardinality({p \in (1..Len(completed)) \X (1..Len(emitted)) :
                   /\ p[2] <= Len(completed[p[1]].events)
                   /\ completed[p[1]].events[p[2]].seq = q})

\* C8: exactly-one-batch membership.  Under every interleaving of emissions,
\* automatic and explicit flushes and answers, every emitted event is in
\* exactly one place: the pending buffer, one in-flight batch, or one
\* answered batch (delivered, or dropped after the failure was reported to
\* the handler); and these places hold emitted events only.
C8_ExactlyOnePlace ==
  /\ \A q \in EmittedSeqs : Places(q) = 1
  /\ BatchSeqs(pendingEvents) \subseteq EmittedSeqs
  /\ \A b \in inflight : BatchSeqs(b.events) \subseteq EmittedSeqs
  /\ \A c \in CompletedSet :
       /\ BatchSeqs(c.events) \subseteq EmittedSeqs
       /\ ~c.ok => c.handler >= 1

\* an emission made while a flush is in flight sits in the new buffer
C8_Witness ==
  /\ pendingEvents # <<>>
  /\ \E b \in inflight :
       /\ b.kind = "flush"
       /\ \A i \in 1..Len(pendingEvents) : pendingEvents[i].seq > b.id
  /\ \A q \in EmittedSeqs : Places(q) = 1

Emitters == {"startRun", "recordStep", "endRun"}

\* C9: non-blocking emission.  startRun, recordStep and endRun return
\* without waiting for any delivery: after such a call the pipeline code is
\* not suspended, also when the call started a request that is still
\* unanswered; only an awaited flush() suspends it.
C9_NonBlocking ==
  /\ (calls # <<>> /\ Last(calls).op \in Emitters) => awaiting = 0
  /\ awaiting # 0 =>
       /\ Last(calls) = Call("flush", "awaited")
       /\ \E b \in inflight : b.id = awaiting /\ b.kind = "flush"

\* recordStep has returned its stepId although the request it started, and
\* the one started by the emission before it, are both unanswered
C9_Witness ==
  /\ Len(calls) >= 2
  /\ Last(calls).op = "recordStep"
  /\ ret = Len(calls)
  /\ awaiting = 0
  /\ \E b1, b2 \in inflight :
       /\ b1.kind = "auto"
       /\ b2.kind = "auto"
       /\ b1.id < b2.id
       /\ b2.id = Len(calls)

\* C10: a delivery failure never surfaces in pipeline code.  Whenever a
\* request fails, the promise of the call that started it (the emission's
\* _sendEvent chain, or flush()) is resolved, not rejected, the failure was
\* reported to the error handler, and pipeline code that awaited the flush
\* has resumed.
C10_NoFailureSurfaces ==
  \A c \in CompletedSet :
    /\ c.state = "resolved"
    /\ awaiting # c.id
    /\ ~c.ok => c.handler >= 1

\* an awaited flush() and an automatic flush have both failed
C10_Witness ==
  \E c, d \in CompletedSet :
    /\ ~c.ok
    /\ c.kind = "flush"
    /\ calls[c.id] = Call("flush", "awaited")
    /\ ~d.ok
    /\ d.kind = "auto"
    /\ awaiting = 0
    /\ Len(calls) > c.id

----------------------------------------------------------------------------
(* Failed batches and manual flush *)

----------------------------------------------------------------------------
(* The API as any HTTP client sees it: POST /api/ingest with an arbitrary  *)
(* body, and the read endpoints.  A query-string parameter is a record:    *)
(* QAbsent (parameter not given), QNum(n) (the decimal text of n) or QText *)
(* (a text parseInt/parseFloat turn into NaN, such as "abc").  A text      *)
(* filter parameter is "" when it is not given.                            *)

QAbsent == [kind |-> "absent", v |-> 0]
QNum(n) == [kind |-> "number", v |-> n]
QText == [kind |-> "text", v |-> 0]

\* const { type, data } = event throws on a null event, and data.runId /
\* data.stepId throw when an event of a known type carries no data
Throws(event) ==
  \/ event = NullValue
  \/ /\ event.type \in {"run_start", "step", "run_end"}
     /\ event.data = Missing

\* events.forEach(...) inside the try block: the first throwing event ends
\* the loop, the events before it stay applied
RECURSIVE IngestForEach(_, _)
IngestForEach(st, events) ==
  IF events = <<>> THEN [store |-> st, thrown |-> FALSE]
  ELSE IF Throws(Head(events)) THEN [store |-> st, thrown |-> TRUE]
  ELSE IngestForEach(IngestEvent(st, Head(events)), Tail(events))

\* POST /api/ingest: the store after the request, and the response
PostIngest(st, events) ==
  IF events.kind # "array"
  THEN [store |-> st, status |-> 400, success |-> FALSE, processed |-> <<>>,
        error |-> <<"events must be an array">>]
  ELSE LET r == IngestForEach(st, events.items)
       IN IF r.thrown
          THEN [store |-> r.store, status |-> 500, success |-> FALSE,
                processed |-> <<>>, error |-> <<"TypeError">>]
          ELSE [store |-> r.store, status |-> 200, success |-> TRUE,
                processed |-> <<Len(events.items)>>, error |-> <<>>]

\* Faulty variant: an unknown runId yields an empty Run
GetRun_EmptyRun(st, id) ==
  LET i == IndexOfRun(st.runs, id)
  IN IF i = 0
     THEN [status |-> 200, found |-> TRUE,
           run |-> [runId |-> id, pipeline |-> "", startTime |-> 0,
                    steps |-> <<>>, status |-> "running",
                    duration |-> <<>>, endTime |-> <<>>]]
     ELSE [status |-> 200, found |-> TRUE, run |-> st.runs[i]]

\* GET /api/runs/:runId
GetRun(st, id) ==
  LET i == IndexOfRun(st.runs, id)
  IN IF i = 0
     THEN [status |-> 404, found |-> FALSE, error |-> "Run not found"]
     ELSE [status |-> 200, found |-> TRUE, run |-> st.runs[i]]

\* parseInt / parseFloat of a parameter whose default is dflt
ParseNumber(p, dflt) ==
  IF p.kind = "absent" THEN [nan |-> FALSE, v |-> dflt]
  ELSE IF p.kind = "number" THEN [nan |-> FALSE, v |-> p.v]
  ELSE [nan |-> TRUE, v |-> 0]

\* Array.prototype.slice(start, end): NaN counts as 0, a negative index
\* counts from the end
Slice(s, start, end) ==
  LET Rel(n) == IF n.nan THEN 0
                ELSE IF n.v < 0 THEN Max(Len(s) + n.v, 0)
                ELSE Min(n.v, Len(s))
  IN SubSeq(s, Rel(start) + 1, Rel(end))

\* Array.prototype.sort((a, b) => new Date(b[key]) - new Date(a[key])):
\* stable, newest first
RECURSIVE SortNewestFirst(_, _)
SortNewestFirst(s, key) ==
  IF s = <<>> THEN <<>>
  ELSE LET x == Head(s)
           rest == SortNewestFirst(Tail(s), key)
           newer == SelectSeq(rest, LAMBDA y : y[key] > x[key])
           others == SelectSeq(rest, LAMBDA y : y[key] <= x[key])
       IN newer \o <<x>> \o others

\* Faulty variant: total is counted after pagination
Paginate_TotalAfter(results, limitParam, offsetParam) ==
  LET limit == ParseNumber(limitParam, DefaultLimit)
      offset == ParseNumber(offsetParam, 0)
      end == [nan |-> limit.nan \/ offset.nan, v |-> offset.v + limit.v]
  IN [status |-> 200,
      items |-> Slice(results, offset, end),
      total |-> Len(Slice(results, offset, end)),
      limit |-> IF limit.nan THEN <<>> ELSE <<limit.v>>,
      offset |-> IF offset.nan THEN <<>> ELSE <<offset.v>>]

\* results.slice(parseInt(offset), parseInt(offset) + parseInt(limit)) and
\* the response; a NaN is written as null by res.json (here <<>>)
Paginate(results, limitParam, offsetParam) ==
  LET limit == ParseNumber(limitParam, DefaultLimit)
      offset == ParseNumber(offsetParam, 0)
      end == [nan |-> limit.nan \/ offset.nan, v |-> offset.v + limit.v]
  IN [status |-> 200,
      items |-> Slice(results, offset, end),
      total |-> Len(results),
      limit |-> IF limit.nan THEN <<>> ELSE <<limit.v>>,
      offset |-> IF offset.nan THEN <<>> ELSE <<offset.v>>]

\* if (param) results = results.filter(x => x.length >=/<= parseInt(param))
CountTest(param, n, atLeast) ==
  \/ param.kind = "absent"
  \/ /\ param.kind = "number"
     /\ IF atLeast THEN n >= param.v ELSE n <= param.v

\* if (param) results = results.filter(run => run.startTime >=/<= param)
TimeTest(param, t, atLeast) ==
  \/ param.kind = "absent"
  \/ /\ param.kind = "number"
     /\ IF atLeast THEN t >= param.v ELSE t <= param.v

\* the filters of GET /api/runs
RunFilter(run, q) ==
  /\ q.pipeline = "" \/ run.pipeline = q.pipeline
  /\ q.status = "" \/ run.status = q.status
  /\ TimeTest(q.startTime, run.startTime, TRUE)
  /\ TimeTest(q.endTime, run.startTime, FALSE)
  /\ CountTest(q.minSteps, Len(run.steps), TRUE)
  /\ CountTest(q.maxSteps, Len(run.steps), FALSE)

\* the runs that pass the filters, sorted by start time, newest first
FilteredRuns(st, q) ==
  SortNewestFirst(SelectSeq(st.runs, LAMBDA run : RunFilter(run, q)),
                  "startTime")

\* GET /api/runs
GetRuns(st, q) == Paginate(FilteredRuns(st, q), q.limit, q.offset)

\* new Set(runsByPipeline.get(pipeline) || [])
PipelineRunIds(idx, pipeline) ==
  LET j == IndexOfPipeline(idx, pipeline)
  IN IF j = 0 THEN {} ELSE SeqRange(idx[j].runIds)

\* the filters of GET /api/steps (runId 0: parameter not given)
StepFilter(st, step, q) ==
  /\ q.runId = 0 \/ step.runId = q.runId
  /\ q.name = "" \/ step.name = q.name
  /\ q.type = "" \/ step.type = q.type
  /\ q.pipeline = ""
       \/ step.runId \in PipelineRunIds(st.runsByPipeline, q.pipeline)

\* the steps that pass the filters, sorted by timestamp, newest first
FilteredSteps(st, q) ==
  SortNewestFirst(SelectSeq(st.steps, LAMBDA step : StepFilter(st, step, q)),
                  "timestamp")

\* GET /api/steps
GetSteps(st, q) == Paginate(FilteredSteps(st, q), q.limit, q.offset)

\* GET /api/query/filter-elimination: parseFloat(threshold) is NaN for a
\* non-numeric text, and eliminationRate >= NaN is false for every step
GetFilterElimination(st, thresholdParam, pipelineParam) ==
  LET matches ==
        IF thresholdParam.kind = "text" THEN <<>>
        ELSE FilterElimination(
               st.runs,
               IF thresholdParam.kind = "absent" THEN <<>>
               ELSE <<thresholdParam.v>>,
               pipelineParam)
  IN [status |-> 200, matches |-> matches, count |-> Len(matches)]

\* Array.from(runs.values()).filter(r => r.pipeline === pipeline)
PipelineRuns(runList, pipeline) ==
  SelectSeq(runList, LAMBDA r : r.pipeline = pipeline)

\* .filter(r => r.duration): undefined and 0 are falsy
HasTruthyDuration(r) == r.duration # <<>> /\ r.duration[1] # 0

\* GET /api/pipelines: Array.from(runsByPipeline.keys())
GetPipelines(st) ==
  [status |-> 200,
   pipelines |-> [j \in 1..Len(st.runsByPipeline) |->
                    st.runsByPipeline[j].pipeline]]

\* GET /api/pipelines/:pipeline/stats.  A quotient is kept as [sum, n];
\* n = 0 is the division 0 / 0, whose value NaN res.json writes as null.
GetPipelineStats(st, pipeline) ==
  LET pipelineRuns == PipelineRuns(st.runs, pipeline)
      timed == SelectSeq(pipelineRuns, HasTruthyDuration)
  IN IF Len(pipelineRuns) = 0
     THEN [status |-> 200, pipeline |-> pipeline, totalRuns |-> 0,
           hasStats |-> FALSE]
     ELSE [status |-> 200, pipeline |-> pipeline, hasStats |-> TRUE,
           totalRuns |-> Len(pipelineRuns),
           successCount |->
             Len(SelectSeq(pipelineRuns, LAMBDA r : r.status = "success")),
           errorCount |->
             Len(SelectSeq(pipelineRuns, LAMBDA r : r.status = "error")),
           avgDuration |->
             [sum |-> SeqSum([i \in 1..Len(timed) |-> timed[i].duration[1]]),
              n |-> Len(timed)],
           avgStepCount |->
             [sum |-> SeqSum([i \in 1..Len(pipelineRuns) |->
                                Len(pipelineRuns[i].steps)]),
              n |-> Len(pipelineRuns)]]

----------------------------------------------------------------------------
(* Specification of the API under arbitrary requests: any client may post  *)
(* any body.  A behaviour is a bounded number of posts followed by one     *)
(* read request: a read leaves the store as it is, so reads between the    *)
(* posts reach no other store.  probe holds the last request and probeOut  *)
(* its response; nextId counts the posts.                                  *)

MaxIngests == 3    \* POST /api/ingest requests in one behaviour

RunIds == {1, 2}
StorePipelines == {"p", "q"}
Durations == {0, 5}

SummaryOf(total) ==
  [kind |-> "summary", total |-> total, sample |-> <<ItemA>>,
   sampleSize |-> 1, summary |-> NullValue]

\* candidates / filtered of a step as they arrive, by shape: "hi" 1 kept
\* and 9 filtered (summarized), "low" 1 and 1, "zero" none and none,
\* "nocand" no candidates field
ShapeCandidates(shape) ==
  CASE shape = "zero" -> Arr(<<>>)
    [] shape = "nocand" -> Missing
    [] OTHER -> Arr(<<ItemA>>)

ShapeFiltered(shape) ==
  CASE shape = "hi" -> SummaryOf(9)
    [] shape = "zero" -> Arr(<<>>)
    [] OTHER -> Arr(<<ItemA>>)

\* run 1 was started later than run 2
RunStartEvent(id, pipeline) ==
  [type |-> "run_start",
   data |-> [runId |-> id, pipeline |-> pipeline, timestamp |-> 3 - id]]

StepEvent(id, run, type, shape) ==
  [type |-> "step",
   data |-> [stepId |-> id, runId |-> run, name |-> shape, type |-> type,
             candidates |-> ShapeCandidates(shape),
             filtered |-> ShapeFiltered(shape), timestamp |-> id]]

RunEndEvent(id, status, duration) ==
  [type |-> "run_end",
   data |-> [runId |-> id, status |-> status, duration |-> duration,
             timestamp |-> 3]]

RunStartEvents ==
  {RunStartEvent(id, p) : id \in RunIds, p \in StorePipelines}

StepEvents ==
  {StepEvent(1, run, "filter", shape) :
     run \in RunIds, shape \in {"hi", "zero"}}
  \cup {StepEvent(2, run, "filter", shape) :
          run \in RunIds, shape \in {"low", "nocand"}}
  \cup {StepEvent(2, run, "rank", "hi") : run \in RunIds}

RunEndEvents ==
  {RunEndEvent(id, "success", d) : id \in RunIds, d \in Durations}
  \cup {RunEndEvent(id, "error", 5) : id \in RunIds}

\* an event whose type the switch does not know
UnknownEvent == [type |-> "log", data |-> Missing]

\* a null event, and events of a known type that carry no data
MalformedEvents == {NullValue, [type |-> "step", data |-> Missing]}

WellFormedEvents ==
  RunStartEvents \cup StepEvents \cup RunEndEvents \cup {UnknownEvent}

\* events posted next to a malformed one
AnchorEvents ==
  {RunStartEvent(1, "p"), StepEvent(1, 1, "filter", "hi"),
   RunEndEvent(1, "success", 5)}

\* a body whose events field is not an array
NotAnArray == [kind |-> "object"]

\* a run_start and a step of that run in one batch
RestartBatch ==
  Arr(<<RunStartEvent(1, "p"), StepEvent(1, 1, "filter", "hi")>>)

\* the run_end of a run ahead of its run_start in one batch
EndBeforeStartBatch ==
  Arr(<<RunEndEvent(1, "success", 5), RunStartEvent(1, "p")>>)

IngestBodies ==
  {Missing, NotAnArray, Arr(<<>>)}
  \cup {Arr(<<e>>) : e \in WellFormedEvents \cup MalformedEvents}
  \cup {Arr(<<a, m>>) : a \in AnchorEvents, m \in MalformedEvents}
  \cup {Arr(<<m, a>>) : a \in AnchorEvents, m \in MalformedEvents}
  \cup {Arr(<<RunStartEvent(1, "p"), m, RunEndEvent(1, "success", 5)>>) :
          m \in MalformedEvents}
  \cup {RestartBatch}
  \cup {EndBeforeStartBatch}

NoFilters ==
  [pipeline |-> "", status |-> "", startTime |-> QAbsent, endTime |-> QAbsent,
   minSteps |-> QAbsent, maxSteps |-> QAbsent, limit |-> QAbsent,
   offset |-> QAbsent]

\* <<limit, offset>>
Pages ==
  {<<QAbsent, QAbsent>>, <<QNum(0), QAbsent>>, <<QNum(1), QAbsent>>,
   <<QNum(1), QNum(1)>>, <<QAbsent, QNum(1)>>, <<QNum(2), QNum(1)>>,
   <<QText, QAbsent>>, <<QAbsent, QText>>, <<QText, QText>>}

RunQueries ==
  {[NoFilters EXCEPT !.limit = pg[1], !.offset = pg[2]] : pg \in Pages}
  \cup {[NoFilters EXCEPT !.pipeline = "p", !.limit = QNum(1)],
        [NoFilters EXCEPT !.status = "success", !.offset = QNum(1)],
        [NoFilters EXCEPT !.minSteps = QNum(1)],
        [NoFilters EXCEPT !.maxSteps = QNum(0), !.startTime = QNum(2)],
        [NoFilters EXCEPT !.endTime = QNum(1), !.minSteps = QText]}

NoStepFilters ==
  [runId |-> 0, name |-> "", type |-> "", pipeline |-> "",
   limit |-> QAbsent, offset |-> QAbsent]

StepQueries ==
  {[NoStepFilters EXCEPT !.limit = pg[1], !.offset = pg[2]] : pg \in Pages}
  \cup {[NoStepFilters EXCEPT !.runId = 1, !.limit = QNum(1)],
        [NoStepFilters EXCEPT !.name = "hi", !.offset = QNum(1)],
        [NoStepFilters EXCEPT !.type = "filter"],
        [NoStepFilters EXCEPT !.pipeline = "p"]}

ThresholdParams == {QAbsent, QNum(0), QNum(50), QNum(100), QText}

NoRequest == [op |-> "none"]

InitStore ==
  /\ enabled = TRUE
  /\ batchSize = DefaultBatchSize
  /\ runId = 0
  /\ startTime = 0
  /\ steps = <<>>
  /\ pendingEvents = <<>>
  /\ inflight = {}
  /\ completed = <<>>
  /\ awaiting = 0
  /\ calls = <<>>
  /\ ret = 0
  /\ nextId = 1
  /\ emitted = <<>>
  /\ runs = <<>>
  /\ stepMap = <<>>
  /\ runsByPipeline = <<>>
  /\ probe = NoRequest
  /\ probeOut = NoRequest

\* no read request has been made yet
Posting == probe.op \in {"none", "ingest"}

\* a read request: the store stays as it is
Answered(request, response) ==
  /\ Posting
  /\ probe' = request
  /\ probeOut' = response
  /\ UNCHANGED <<clientVars, netVars, callVars, storeVars>>

IngestPosted ==
  \E body \in IngestBodies :
    /\ Posting
    /\ nextId <= MaxIngests
    /\ LET r == PostIngest(Store, body)
       IN /\ runs' = r.store.runs
          /\ stepMap' = r.store.steps
          /\ runsByPipeline' = r.store.runsByPipeline
          /\ probe' = [op |-> "ingest", events |-> body]
          /\ probeOut' = [status |-> r.status, success |-> r.success,
                          processed |-> r.processed, error |-> r.error]
    /\ nextId' = nextId + 1
    /\ UNCHANGED <<clientVars, netVars, calls, ret, emitted>>

RunRequested ==
  \E id \in RunIds \cup {3} :
    Answered([op |-> "getRun", runId |-> id], GetRun(Store, id))

RunsRequested ==
  \E q \in RunQueries : Answered([op |-> "getRuns", q |-> q], GetRuns(Store, q))

StepsRequested ==
  \E q \in StepQueries :
    Answered([op |-> "getSteps", q |-> q], GetSteps(Store, q))

FilterEliminationRequested ==
  \E th \in ThresholdParams, p \in {"", "p"} :
    Answered([op |-> "filterElimination", threshold |-> th, pipeline |-> p],
             GetFilterElimination(Store, th, p))

PipelineStatsRequested ==
  \E p \in StorePipelines :
    Answered([op |-> "pipelineStats", pipeline |-> p],
             GetPipelineStats(Store, p))

PipelinesRequested ==
  Answered([op |-> "getPipelines"], GetPipelines(Store))

NextStore ==
  \/ IngestPosted
  \/ RunRequested
  \/ RunsRequested
  \/ StepsRequested
  \/ FilterEliminationRequested
  \/ PipelineStatsRequested
  \/ PipelinesRequested

SpecStore == InitStore /\ [][NextStore]_vars

----------------------------------------------------------------------------
(* Claims about the API under arbitrary requests *)

\* the threshold a numeric or absent threshold parameter stands for
ThresholdValue(param) ==
  IF param.kind = "absent" THEN DefaultThreshold ELSE param.v

\* The inclusion rule, on one step and a threshold in percent
InclusionRule(step, th) ==
  /\ step.type = "filter"
  /\ Truthy(step.candidates)
  /\ Truthy(step.filtered)
  /\ TotalOf(step.candidates) + TotalOf(step.filtered) > 0
  /\ TotalOf(step.filtered) * 100
       >= th * (TotalOf(step.candidates) + TotalOf(step.filtered))

\* the pipeline of the Run a step names, "" when the store has no such Run
PipelineOfStep(step) ==
  IF IndexOfRun(runs, step.runId) = 0 THEN ""
  ELSE runs[IndexOfRun(runs, step.runId)].pipeline

\* match m reports step s
Reports(m, s) ==
  /\ m.stepId = s.stepId
  /\ m.stepName = s.name
  /\ m.candidatesIn = TotalOf(s.candidates)
  /\ m.filteredOut = TotalOf(s.filtered)

FilterEliminationAnswered ==
  /\ probe.op = "filterElimination"
  /\ probe.threshold.kind # "text"

Scanned ==
  {ik \in (1..Len(runs)) \X (1..2 * MaxIngests) :
     /\ ik[2] <= Len(runs[ik[1]].steps)
     /\ probe.pipeline = "" \/ runs[ik[1]].pipeline = probe.pipeline}

C13_GetRun ==
  probe.op = "getRun" =>
    IF \E i \in 1..Len(runs) : runs[i].runId = probe.runId
    THEN /\ probeOut.status = 200
         /\ probeOut.found
         /\ \E i \in 1..Len(runs) :
              /\ runs[i].runId = probe.runId
              /\ probeOut.run = runs[i]
              /\ probeOut.run.steps = runs[i].steps
    ELSE /\ probeOut.status = 404
         /\ ~probeOut.found
         /\ probeOut.error = "Run not found"
         /\ "run" \notin DOMAIN probeOut

\* a run with a step in its list is in the store, and a runId the store
\* does not hold was asked for
C13_Witness ==
  /\ probe.op = "getRun"
  /\ probeOut.status = 404
  /\ \E i \in 1..Len(runs) : Len(runs[i].steps) >= 1

\* a step of the API that answers POST /api/ingest
IngestAnswered == nextId' = nextId + 1 /\ probe'.op = "ingest"

\* C14: an ingest whose events field is not a sequence is rejected with a
\* structured error (status 400 and an error text) and leaves the runs
\* map, the steps map and the pipeline index unchanged; an ingest of a
\* sequence reports processed equal to the number of events of the batch.
C14_IngestShape ==
  [][IngestAnswered =>
       IF probe'.events.kind # "array"
       THEN /\ probeOut'.status = 400
            /\ ~probeOut'.success
            /\ probeOut'.error # <<>>
            /\ UNCHANGED storeVars
       ELSE probeOut'.processed = <<Len(probe'.events.items)>>]_vars

\* the events of a batch that can be applied
Applicable(events) == SelectSeq(events, LAMBDA e : ~Throws(e))

\* C15: a malformed event in a batch that is a sequence (a null event, an
\* event of a known type with no data) never fails the whole batch: the
\* ingest reports success and every other event of the batch, before and
\* after the malformed one, is applied to the store.
C15_MalformedEvent ==
  [][(IngestAnswered /\ probe'.events.kind = "array") =>
       /\ probeOut'.success
       /\ probeOut'.status = 200
       /\ LET st == Ingest(Store, Applicable(probe'.events.items))
          IN /\ runs' = st.runs
             /\ stepMap' = st.steps
             /\ runsByPipeline' = st.runsByPipeline]_vars

\* C16 (as stated): once the status of a Run in the store is success or
\* error it never changes again and never returns to running, whatever
\* events are ingested.
C16_AsStated ==
  [][\A i \in 1..Len(runs) :
       runs[i].status \in {"success", "error"} =>
         \E j \in 1..Len(runs') :
           /\ runs'[j].runId = runs[i].runId
           /\ runs'[j].status = runs[i].status]_vars

\* the batch just ingested carries an event of that type for that runId
Carries(events, type, id) ==
  \E k \in 1..Len(events) :
    /\ ~Throws(events[k])
    /\ events[k].type = type
    /\ events[k].data.runId = id

\* C16 (amended): a Run enters the store as running, by a run_start event
\* for its runId; its status changes only when a batch is ingested that
\* carries a run_end event for its runId with the new status, or a
\* run_start event for its runId, which returns it to running.  Nothing
\* else changes the status of a Run, and no Run leaves the store.
C16_StatusChanges ==
  [][/\ Len(runs') >= Len(runs)
     /\ \A i \in 1..Len(runs') :
          LET id == runs'[i].runId
              changed == IF i <= Len(runs)
                         THEN runs'[i].status # runs[i].status
                         ELSE TRUE
          IN /\ i <= Len(runs) => runs[i].runId = id
             /\ changed =>
                  /\ IngestAnswered
                  /\ probe'.events.kind = "array"
                  /\ IF runs'[i].status = "running"
                     THEN Carries(probe'.events.items, "run_start", id)
                     ELSE \E k \in 1..Len(probe'.events.items) :
                            LET e == probe'.events.items[k]
                            IN /\ ~Throws(e)
                               /\ e.type = "run_end"
                               /\ e.data.runId = id
                               /\ e.data.status = runs'[i].status]_vars

\* run 1 was started twice (its id is twice in the pipeline index) and the
\* third post, a run_end with status error, closed it
C16_Witness ==
  /\ probe.op = "ingest"
  /\ probe.events = Arr(<<RunEndEvent(1, "error", 5)>>)
  /\ nextId = MaxIngests + 1
  /\ \E i \in 1..Len(runs) : runs[i].runId = 1 /\ runs[i].status = "error"
  /\ \E j \in 1..Len(runsByPipeline) :
       /\ Len(runsByPipeline[j].runIds) = 2
       /\ SeqRange(runsByPipeline[j].runIds) = {1}

\* the value of a limit or offset parameter that is a number or not given
PageValue(param, dflt) == IF param.kind = "absent" THEN dflt ELSE param.v

\* a list request whose limit and offset are numbers or not given
ListAnswered ==
  /\ probe.op \in {"getRuns", "getSteps"}
  /\ probe.q.limit.kind # "text"
  /\ probe.q.offset.kind # "text"

\* the records that pass the filters of the list request, sorted
ListFiltered ==
  IF probe.op = "getRuns" THEN FilteredRuns(Store, probe.q)
  ELSE FilteredSteps(Store, probe.q)

\* C17: in list-runs and list-steps the returned total is the number of
\* records that pass the filters before pagination, the same for every
\* limit and offset, and the returned items are exactly the elements of the
\* filtered, sorted sequence at positions offset .. offset+limit-1 (counted
\* from 0), so at most limit items are returned.
C17_Pagination ==
  ListAnswered =>
    LET F == ListFiltered
        limit == PageValue(probe.q.limit, DefaultLimit)
        offset == PageValue(probe.q.offset, 0)
        Positions == {k \in 0..(Len(F) - 1) :
                        offset <= k /\ k <= offset + limit - 1}
        unpaged == [probe.q EXCEPT !.limit = QAbsent, !.offset = QAbsent]
    IN /\ probeOut.total = Len(F)
       /\ probeOut.total =
            IF probe.op = "getRuns"
            THEN Cardinality({i \in 1..Len(runs) : RunFilter(runs[i], probe.q)})
            ELSE Cardinality({i \in 1..Len(stepMap) :
                                StepFilter(Store, stepMap[i], probe.q)})
       /\ probeOut.total =
            IF probe.op = "getRuns" THEN GetRuns(Store, unpaged).total
            ELSE GetSteps(Store, unpaged).total
       /\ Len(probeOut.items) = Cardinality(Positions)
       /\ Len(probeOut.items) <= limit
       /\ \A k \in 1..Len(probeOut.items) :
            probeOut.items[k] = F[offset + k]

\* two runs pass, and the page of limit 1 at offset 1 holds the older one
C17_Witness ==
  /\ probe.op = "getRuns"
  /\ probe.q.limit = QNum(1)
  /\ probe.q.offset = QNum(1)
  /\ probeOut.total = 2
  /\ Len(probeOut.items) = 1
  /\ probeOut.items[1].runId = 2
  /\ runs[1].runId = 2

\* a non-numeric parameter replaced by no parameter, i.e. by its default
Coerced(param) == IF param.kind = "text" THEN QAbsent ELSE param

\* C18: malformed query input is coerced to the defaults: a list request
\* with a non-numeric limit or offset returns what the same request returns
\* with limit 100 or offset 0 in its place, and the filter-elimination
\* query with a non-numeric threshold returns what it returns for
\* threshold 90.
C18_Coercion ==
  /\ probe.op = "getRuns" =>
       LET d == GetRuns(Store, [probe.q EXCEPT !.limit = Coerced(@),
                                               !.offset = Coerced(@)])
       IN probeOut.items = d.items /\ probeOut.total = d.total
  /\ probe.op = "getSteps" =>
       LET d == GetSteps(Store, [probe.q EXCEPT !.limit = Coerced(@),
                                                !.offset = Coerced(@)])
       IN probeOut.items = d.items /\ probeOut.total = d.total
  /\ probe.op = "filterElimination" =>
       probeOut.matches =
         GetFilterElimination(Store, Coerced(probe.threshold),
                              probe.pipeline).matches

\* the indices of the Runs of the pipeline asked for
RunsOfPipeline == {i \in 1..Len(runs) : runs[i].pipeline = probe.pipeline}

\* C19: pipeline stats: stats is null exactly when the store holds no Run
\* of the pipeline; otherwise totalRuns is the number of its Runs,
\* successCount and errorCount count the Runs with those statuses, and the
\* average duration is the mean over exactly the Runs that have a duration
\* (duration 0 included); it is a well-defined value (not 0 / 0) also when
\* no Run of the pipeline has ended.
C19_PipelineStats ==
  probe.op = "pipelineStats" =>
    LET R == RunsOfPipeline
        Ended == {i \in R : runs[i].duration # <<>>}
    IN /\ probeOut.hasStats <=> R # {}
       /\ probeOut.hasStats =>
            /\ probeOut.totalRuns = Cardinality(R)
            /\ probeOut.successCount =
                 Cardinality({i \in R : runs[i].status = "success"})
            /\ probeOut.errorCount =
                 Cardinality({i \in R : runs[i].status = "error"})
            /\ probeOut.avgDuration.n # 0
            /\ Ended # {} =>
                 /\ probeOut.avgDuration.n = Cardinality(Ended)
                 /\ probeOut.avgDuration.sum =
                      SeqSum([i \in 1..Len(runs) |->
                                IF i \in Ended THEN runs[i].duration[1]
                                ELSE 0])

----------------------------------------------------------------------------
(* Claims about the statistics of a Summary *)

\* the candidates were summarized with a limit that is a natural number
SummarizedWithLimit ==
  /\ probeOut.done
  /\ probeOut.candidates.kind = "summary"
  /\ LimitOf(probe.cl) >= 0

NumbersAt(S, key) == {i \in 1..Len(S) : S[i][key].t = "number"}

----------------------------------------------------------------------------
(* Claims about limits that are zero or negative *)

\* C21: for every limit <= 0, zero and every negative value, a non-empty
\* sequence is summarized to a Summary with total equal to its length and
\* an empty sample, and an empty sequence is returned unchanged, not as a
\* Summary.
C21_NonPositiveLimit ==
  (probeOut.done /\ LimitOf(probe.cl) <= 0) =>
    IF probe.c.items = <<>>
    THEN probeOut.candidates = probe.c
    ELSE /\ probeOut.candidates.kind = "summary"
         /\ probeOut.candidates.total = Len(probe.c.items)
         /\ probeOut.candidates.sample = <<>>

----------------------------------------------------------------------------
(* Claims about the client's calls *)

\* the step is a call of startRun, recordStep or endRun
EmittingCall ==
  /\ Len(calls') = Len(calls) + 1
  /\ Last(calls').op \in {"startRun", "recordStep", "endRun"}

\* C22: automatic flush.  After every startRun/recordStep/endRun call has
\* returned, the pending buffer holds fewer than batchSize events; when the
\* emission of the call makes the buffer reach batchSize, the whole buffer,
\* the new event last, is swapped out within the call into one request and
\* the buffer is left empty.
C22_AutomaticFlush ==
  [][EmittingCall =>
       /\ Len(pendingEvents') < batchSize
       /\ (Len(emitted') > Len(emitted)
           /\ Len(pendingEvents) + 1 >= batchSize) =>
            /\ pendingEvents' = <<>>
            /\ inflight' = inflight \cup
                 {[id |-> Len(calls'), kind |-> "auto",
                   events |-> Append(pendingEvents, Last(emitted'))]}
            /\ inflight' # inflight]_vars

\* with batchSize 2, the second emission has just started a request that
\* carries both events, and the buffer is empty
C22_Witness ==
  /\ batchSize = 2
  /\ Len(calls) = 2
  /\ Last(calls).op = "recordStep"
  /\ pendingEvents = <<>>
  /\ \E b \in inflight :
       /\ b.kind = "auto"
       /\ b.id = 2
       /\ b.events = emitted
       /\ Len(b.events) = 2

\* the batches handed to delivery so far: in flight or answered
HandedOver ==
  {b.events : b \in inflight} \cup {c.events : c \in CompletedSet}

\* batch is the segment of the emission sequence that starts at position a
SegmentAt(batch, a) ==
  /\ a + Len(batch) - 1 <= Len(emitted)
  /\ batch = SubSeq(emitted, a, a + Len(batch) - 1)

\* the step list of the Run of that runId in the store (<<>> if none)
StoredStepIds(id) ==
  IF IndexOfRun(runs, id) = 0 THEN <<>>
  ELSE [k \in 1..Len(runs[IndexOfRun(runs, id)].steps) |->
          runs[IndexOfRun(runs, id)].steps[k].stepId]

\* C23: every batch handed to delivery holds its events in emission order
\* and is a segment of consecutive events of the emission sequence; the
\* segments of different batches do not overlap and, with the pending
\* buffer as the last segment, cover the emission sequence.  The store
\* applies the events of one delivered batch in that order: a step that
\* follows the run_start of its run in the batch is in the step list of
\* that run, after the steps of the run that precede it in the batch.
C23_IntraBatchOrder ==
  /\ \A batch \in HandedOver :
       /\ batch # <<>>
       /\ \E a \in 1..Len(emitted) : SegmentAt(batch, a)
       /\ \A i, j \in 1..Len(batch) : i < j => batch[i].seq < batch[j].seq
  /\ \A b1, b2 \in HandedOver :
       b1 # b2 => BatchSeqs(b1) \cap BatchSeqs(b2) = {}
  /\ SegmentAt(pendingEvents, Len(emitted) - Len(pendingEvents) + 1)
  /\ EmittedSeqs =
       BatchSeqs(pendingEvents) \cup UNION {BatchSeqs(b) : b \in HandedOver}
  /\ \A c \in CompletedSet :
       c.ok =>
         \A i, j \in 1..Len(c.events) :
           (/\ i < j
            /\ c.events[j].type = "step"
            /\ c.events[j].data.runId = c.events[i].data.runId) =>
             LET ids == StoredStepIds(c.events[j].data.runId)
                 At(id) == CHOOSE k \in 1..Len(ids) : ids[k] = id
             IN /\ c.events[i].type = "run_start" =>
                     \E k \in 1..Len(ids) : ids[k] = c.events[j].data.stepId
                /\ (/\ c.events[i].type = "step"
                    /\ \E k \in 1..Len(ids) : ids[k] = c.events[i].data.stepId)
                   => /\ \E k \in 1..Len(ids) :
                           ids[k] = c.events[j].data.stepId
                      /\ At(c.events[i].data.stepId)
                           < At(c.events[j].data.stepId)

\* a delivered batch carried the run_start of a run and two of its steps,
\* and the store holds the two steps in that run, in batch order
C23_Witness ==
  \E c \in CompletedSet :
    /\ c.ok
    /\ Len(c.events) >= 3
    /\ c.events[1].type = "run_start"
    /\ c.events[2].type = "step"
    /\ c.events[3].type = "step"
    /\ StoredStepIds(c.events[1].data.runId)
         = <<c.events[2].data.stepId, c.events[3].data.stepId>>

\* the runId of the last run_start emitted before position k of the
\* emission sequence (0 if none)
RunStartedBefore(k) ==
  LET starts == {i \in 1..(k - 1) : emitted[i].type = "run_start"}
  IN IF starts = {} THEN 0
     ELSE emitted[CHOOSE i \in starts : \A j \in starts : j <= i].data.runId

\* the run_start events emitted for runs that were replaced by a later
\* startRun before any endRun
Discarded ==
  {i \in 1..Len(emitted) :
     /\ emitted[i].type = "run_start"
     /\ \E j \in (i + 1)..Len(emitted) :
          /\ emitted[j].type = "run_start"
          /\ \A k \in (i + 1)..(j - 1) : emitted[k].type # "run_end"}

\* C24: single active run.  A startRun call on an enabled client with an
\* active run replaces the current runId by a fresh one and empties the
\* local step buffer, emitting a run_start and no run_end; every step and
\* run_end event emitted afterwards carries the runId of the most recent
\* run_start, so no run_end is ever emitted for the discarded run.
C24_SingleActiveRun ==
  /\ [][(/\ Len(calls') = Len(calls) + 1
         /\ Last(calls').op = "startRun"
         /\ enabled
         /\ runId # 0) =>
          /\ runId' # runId
          /\ runId' # 0
          /\ ret' = runId'
          /\ steps' = <<>>
          /\ Len(emitted') = Len(emitted) + 1
          /\ Last(emitted').type = "run_start"
          /\ Last(emitted').data.runId = runId']_vars
  /\ [](\A k \in 1..Len(emitted) :
          emitted[k].type \in {"step", "run_end"} =>
            emitted[k].data.runId = RunStartedBefore(k))
  /\ [](\A i \in Discarded :
          \A k \in 1..Len(emitted) :
            emitted[k].type = "run_end" =>
              emitted[k].data.runId # emitted[i].data.runId)

\* a run with one recorded step was replaced by a second startRun, and the
\* endRun that followed emitted the run_end of the second run
C24_Witness ==
  /\ Len(calls) = 4
  /\ calls[1].op = "startRun"
  /\ calls[2].op = "recordStep"
  /\ calls[3].op = "startRun"
  /\ calls[4].op = "endRun"
  /\ Len(emitted) = 4
  /\ Discarded = {1}
  /\ emitted[4].type = "run_end"
  /\ emitted[4].data.runId = emitted[3].data.runId
  /\ emitted[4].data.runId # emitted[1].data.runId
  /\ runId = 0

\* C25: recordStep called while the client is disabled or has no active run
\* returns null and changes nothing: no event is appended to the pending
\* buffer or emitted, the local step buffer and the current run are
\* unchanged and no delivery is triggered.
C25_RecordStepNoop ==
  [][(/\ Len(calls') = Len(calls) + 1
      /\ Last(calls').op = "recordStep"
      /\ ~enabled \/ runId = 0) =>
       /\ ret' = 0
       /\ UNCHANGED <<enabled, batchSize, runId, startTime, steps,
                      pendingEvents, inflight, completed, awaiting, emitted,
                      storeVars>>]_vars

\* recordStep was called with events buffered: once without an active run,
\* and once on a disabled client that has a run
C25_Witness ==
  /\ Len(calls) = 4
  /\ calls[1].op = "recordStep"
  /\ calls[2].op = "startRun"
  /\ calls[3].op = "disable"
  /\ calls[4].op = "recordStep"
  /\ ret = 0
  /\ runId # 0
  /\ steps = <<>>
  /\ Len(pendingEvents) = 1
  /\ Len(emitted) = 1
  /\ inflight = {}

\* the step is a call of endRun
EndRunCalled ==
  /\ Len(calls') = Len(calls) + 1
  /\ Last(calls').op = "endRun"

\* the run_end events emitted for that runId
RunEndsOf(id) ==
  {k \in 1..Len(emitted) :
     emitted[k].type = "run_end" /\ emitted[k].data.runId = id}

\* C26: endRun emits at most one run_end per started run.  On an enabled
\* client the first endRun after a startRun emits one run_end carrying the
\* id of that run, returns that id and clears the active run; an endRun
\* without an active run emits nothing, returns nothing and changes no
\* state; so no run ever has two run_end events.
C26_EndRunOnce ==
  [][/\ (EndRunCalled /\ enabled /\ runId # 0) =>
          /\ Len(emitted') = Len(emitted) + 1
          /\ Last(emitted').type = "run_end"
          /\ Last(emitted').data.runId = runId
          /\ ret' = runId
          /\ runId' = 0
          /\ steps' = <<>>
     /\ (EndRunCalled /\ runId = 0) =>
          /\ ret' = 0
          /\ UNCHANGED <<enabled, batchSize, runId, startTime, steps,
                         pendingEvents, inflight, completed, awaiting,
                         emitted, storeVars>>
     /\ \A k \in 1..Len(emitted') :
          emitted'[k].type = "run_end" =>
            Cardinality({j \in 1..Len(emitted') :
                           /\ emitted'[j].type = "run_end"
                           /\ emitted'[j].data.runId = emitted'[k].data.runId})
              = 1]_vars

\* startRun, endRun, endRun: the first endRun emitted the run_end of the
\* run, the second one emitted nothing
C26_Witness ==
  /\ Len(calls) = 3
  /\ calls[1].op = "startRun"
  /\ calls[2].op = "endRun"
  /\ calls[3].op = "endRun"
  /\ Len(emitted) = 2
  /\ RunEndsOf(1) = {2}
  /\ runId = 0
  /\ ret = 0

\* the recordStep calls made after call number from and before call number
\* to; each of them returned a stepId when a run_end was emitted at to,
\* because the client was enabled and the run of from was active throughout
RecordStepCalls(from, to) ==
  {k \in (from + 1)..(to - 1) : calls[k].op = "recordStep"}

\* C27: the stepCount carried by a run_end event equals the number of
\* recordStep calls that returned a stepId since the most recent startRun
\* (the run's id is the number of that call), and each of those calls
\* emitted a step event that carries its stepId and the runId of the
\* run_end; no other step event carries that runId.
C27_StepCount ==
  \A e \in 1..Len(emitted) :
    emitted[e].type = "run_end" =>
      LET end == emitted[e]
          recorded == RecordStepCalls(end.data.runId, end.seq)
          stepEvents == {k \in 1..Len(emitted) :
                           /\ emitted[k].type = "step"
                           /\ emitted[k].data.runId = end.data.runId}
      IN /\ calls[end.data.runId].op = "startRun"
         /\ \A k \in (end.data.runId + 1)..(end.seq - 1) :
              calls[k].op # "startRun"
         /\ end.data.stepCount = Cardinality(recorded)
         /\ end.data.stepCount = Cardinality(stepEvents)
         /\ {emitted[k].data.stepId : k \in stepEvents} = recorded
         /\ \A k \in stepEvents : k < e

\* a run of two recorded steps was ended: its run_end carries stepCount 2
C27_Witness ==
  /\ Len(calls) = 4
  /\ Len(emitted) = 4
  /\ emitted[4].type = "run_end"
  /\ emitted[4].data.stepCount = 2
  /\ emitted[2].type = "step"
  /\ emitted[3].type = "step"
  /\ emitted[2].data.runId = emitted[4].data.runId
  /\ emitted[3].data.runId = emitted[4].data.runId

\* the pipeline code has just made the call op
JustCalled(op) ==
  /\ Len(calls') = Len(calls) + 1
  /\ calls'[Len(calls')].op = op

\* C28: setting enabled to false leaves the buffered events and the requests
\* in flight as they are; on the disabled client startRun, recordStep and
\* endRun append nothing and return no id; an explicit flush still sends the
\* whole buffer in one request, and a request answered with success after
\* the switch still reaches the store and leaves the buffer alone.
C28_DisableKeepsBuffer ==
  [][/\ (enabled /\ ~enabled') =>
          /\ pendingEvents' = pendingEvents
          /\ inflight' = inflight
          /\ emitted' = emitted
     /\ (~enabled /\ (JustCalled("startRun") \/ JustCalled("recordStep")
                        \/ JustCalled("endRun"))) =>
          /\ pendingEvents' = pendingEvents
          /\ inflight' = inflight
          /\ emitted' = emitted
          /\ ret' = 0
     /\ (~enabled /\ JustCalled("flush") /\ pendingEvents # <<>>) =>
          /\ pendingEvents' = <<>>
          /\ \E b \in inflight' :
               /\ inflight' = inflight \cup {b}
               /\ b \notin inflight
               /\ b.events = pendingEvents
     /\ (~enabled /\ Len(completed') = Len(completed) + 1) =>
          LET done == completed'[Len(completed')]
          IN /\ \E b \in inflight :
                  /\ inflight' = inflight \ {b}
                  /\ b.events = done.events
             /\ pendingEvents' = pendingEvents
             /\ done.ok =>
                  LET st == Ingest(Store, JsonRoundTrip(done.events))
                  IN /\ runs' = st.runs
                     /\ stepMap' = st.steps
                     /\ runsByPipeline' = st.runsByPipeline
             /\ ~enabled'
    ]_vars

\* a run_start was buffered, the client was disabled, a recordStep then
\* appended nothing, and the explicit flush that followed delivered the
\* buffered event to the store
C28_Witness ==
  /\ Len(calls) = 4
  /\ calls[1].op = "startRun"
  /\ calls[2].op = "disable"
  /\ calls[3].op = "recordStep"
  /\ calls[4].op = "flush"
  /\ Len(emitted) = 1
  /\ pendingEvents = <<>>
  /\ Len(completed) = 1
  /\ completed[1].kind = "flush"
  /\ completed[1].ok
  /\ completed[1].events = emitted
  /\ runs # <<>>

\* a batch of exactly one run_start event has just been ingested
RunStartPosted ==
  /\ IngestAnswered
  /\ probe'.events.kind = "array"
  /\ Len(probe'.events.items) = 1
  /\ ~Throws(probe'.events.items[1])
  /\ probe'.events.items[1].type = "run_start"

\* the batch just ingested is the run_start batch ingested just before it
RunStartRepeated ==
  /\ RunStartPosted
  /\ probe.op = "ingest"
  /\ probe.events = probe'.events

\* the Run a run_start event creates
FreshRun(data) ==
  [runId |-> data.runId, pipeline |-> data.pipeline,
   startTime |-> data.timestamp, steps |-> <<>>, status |-> "running",
   duration |-> <<>>, endTime |-> <<>>]

\* the runIds the index holds for a pipeline, as the Set the queries build
IndexedRuns(idx, p) ==
  LET j == IndexOfPipeline(idx, p)
  IN IF j = 0 THEN {}
     ELSE {idx[j].runIds[k] : k \in 1..Len(idx[j].runIds)}

\* C29 (as stated): ingesting the run_start event that was ingested just
\* before leaves the runs map, the steps map and the pipeline index as they
\* were after the first time.
C29_AsStated ==
  [][RunStartRepeated =>
       /\ runs' = runs
       /\ stepMap' = stepMap
       /\ runsByPipeline' = runsByPipeline]_vars

\* C29 (amended): a run_start for a runId that already exists replaces the
\* Run in place by a fresh running Run with no steps (last write wins) and
\* leaves the steps map alone; ingesting the same run_start event twice
\* leaves the runs map and the steps map as after ingesting it once, and
\* the pipeline index with the same pipelines and the same set of runIds
\* for each, but the runId is appended to its pipeline's list once more.
C29_RunStartByKey ==
  [][/\ RunStartPosted =>
          LET data == probe'.events.items[1].data
              i == IndexOfRun(runs, data.runId)
          IN /\ stepMap' = stepMap
             /\ i # 0 => runs' = [runs EXCEPT ![i] = FreshRun(data)]
             /\ i = 0 => runs' = Append(runs, FreshRun(data))
     /\ RunStartRepeated =>
          LET data == probe'.events.items[1].data
              j == IndexOfPipeline(runsByPipeline, data.pipeline)
          IN /\ runs' = runs
             /\ stepMap' = stepMap
             /\ j # 0
             /\ runsByPipeline' =
                  [runsByPipeline EXCEPT
                     ![j].runIds = Append(@, data.runId)]
             /\ \A p \in StorePipelines :
                  IndexedRuns(runsByPipeline', p) = IndexedRuns(runsByPipeline, p)
    ]_vars

\* the run_start of run 1 in pipeline p was ingested twice in a row: one
\* Run, listed twice in the index of p
C29_Witness ==
  /\ probe.op = "ingest"
  /\ probe.events = Arr(<<RunStartEvent(1, "p")>>)
  /\ nextId = 3
  /\ runs = <<FreshRun(RunStartEvent(1, "p").data)>>
  /\ stepMap = <<>>
  /\ runsByPipeline = <<[pipeline |-> "p", runIds |-> <<1, 1>>]>>

\* the events of a batch that the loop applies: those before the first
\* event that throws
AppliedEvents(events) ==
  LET bad == {k \in 1..Len(events) : Throws(events[k])}
  IN IF bad = {} THEN events
     ELSE SubSeq(events, 1, (CHOOSE k \in bad : \A m \in bad : k <= m) - 1)

\* the batch just ingested has applied a run_start event for that runId
Restarted(id) ==
  /\ IngestAnswered
  /\ probe'.events.kind = "array"
  /\ Carries(AppliedEvents(probe'.events.items), "run_start", id)

\* C30 (as stated): each ingest leaves the previous step list of every
\* existing Run as a prefix of its new step list.
C30_AsStated ==
  [][\A i \in 1..Len(runs) :
       LET j == IndexOfRun(runs', runs[i].runId)
       IN /\ j # 0
          /\ IsPrefixOf(runs[i].steps, runs'[j].steps)]_vars

\* C30 (amended): a Run's step list is append-only between two run_start
\* events for its runId: an ingest whose batch applies no run_start for the
\* runId leaves the previous step list as a prefix of the new one; a batch
\* that applies one starts the list again, so that the new list holds only
\* steps of that batch.  No Run leaves the store or changes its place.
C30_AppendOnly ==
  [][\A i \in 1..Len(runs) :
       LET id == runs[i].runId
           j == IndexOfRun(runs', id)
       IN /\ j = i
          /\ IF Restarted(id)
             THEN \A k \in 1..Len(runs'[j].steps) :
                    \E e \in 1..Len(AppliedEvents(probe'.events.items)) :
                      /\ probe'.events.items[e].type = "step"
                      /\ probe'.events.items[e].data = runs'[j].steps[k]
             ELSE IsPrefixOf(runs[i].steps, runs'[j].steps)]_vars

\* run 1 was started with step 1, step 2 was appended to it, and a batch
\* that starts run 1 again with step 1 left it with step 1 alone
C30_Witness ==
  /\ nextId = 4
  /\ probe.op = "ingest"
  /\ probe.events = RestartBatch
  /\ runsByPipeline = <<[pipeline |-> "p", runIds |-> <<1, 1>>]>>
  /\ Len(stepMap) = 2
  /\ stepMap[1].stepId = 1
  /\ stepMap[2].stepId = 2
  /\ stepMap[2].runId = 1
  /\ Len(runs) = 1
  /\ runs[1].steps = <<StepEvent(1, 1, "filter", "hi").data>>

\* the stepId occurs in the step list of some Run
Nested(runList, id) ==
  \E i \in 1..Len(runList) :
    \E k \in 1..Len(runList[i].steps) : runList[i].steps[k].stepId = id

\* a batch of exactly one step event has just been ingested
StepPosted ==
  /\ IngestAnswered
  /\ probe'.events.kind = "array"
  /\ Len(probe'.events.items) = 1
  /\ ~Throws(probe'.events.items[1])
  /\ probe'.events.items[1].type = "step"

\* the batch just ingested has applied a step event with that stepId
StepApplied(id) ==
  /\ IngestAnswered
  /\ probe'.events.kind = "array"
  /\ \E e \in 1..Len(AppliedEvents(probe'.events.items)) :
       /\ probe'.events.items[e].type = "step"
       /\ probe'.events.items[e].data.stepId = id

\* C31: a step event whose runId is unknown when it is ingested is stored in
\* the step map and leaves every Run as it is; a stored Step that is in no
\* Run's step list enters none afterwards, whatever is ingested (a run_start
\* for its runId included), as long as no step event with its stepId is
\* ingested again; and list-steps without filters returns it.
C31_OrphanStep ==
  [][/\ (StepPosted /\ IndexOfRun(runs, probe'.events.items[1].data.runId) = 0) =>
          /\ runs' = runs
          /\ runsByPipeline' = runsByPipeline
          /\ IndexOfStep(stepMap', probe'.events.items[1].data.stepId) # 0
          /\ stepMap'[IndexOfStep(stepMap', probe'.events.items[1].data.stepId)]
               = probe'.events.items[1].data
     /\ \A k \in 1..Len(stepMap) :
          (~Nested(runs, stepMap[k].stepId) /\ ~StepApplied(stepMap[k].stepId)) =>
             ~Nested(runs', stepMap[k].stepId)
     /\ (probe'.op = "getSteps" /\ probe # probe'
           /\ probe'.q = NoStepFilters) =>
          \A k \in 1..Len(stepMap) :
            \E m \in 1..Len(probeOut'.items) : probeOut'.items[m] = stepMap[k]
    ]_vars

\* step 1 of run 1 was ingested before the run_start of run 1: the Step is
\* stored, and the Run that was created afterwards has no steps
C31_Witness ==
  /\ nextId = 3
  /\ probe.op = "ingest"
  /\ probe.events = Arr(<<RunStartEvent(1, "p")>>)
  /\ runsByPipeline = <<[pipeline |-> "p", runIds |-> <<1>>]>>
  /\ stepMap = <<StepEvent(1, 1, "filter", "hi").data>>
  /\ runs = <<FreshRun(RunStartEvent(1, "p").data)>>

\* a batch of exactly one run_end event has just been ingested
RunEndPosted ==
  /\ IngestAnswered
  /\ probe'.events.kind = "array"
  /\ Len(probe'.events.items) = 1
  /\ ~Throws(probe'.events.items[1])
  /\ probe'.events.items[1].type = "run_end"

\* the batch just ingested is a run_end followed by a run_start for the
\* same runId, which was not in the store before
EndThenStartPosted ==
  /\ IngestAnswered
  /\ probe'.events.kind = "array"
  /\ Len(probe'.events.items) = 2
  /\ ~Throws(probe'.events.items[1])
  /\ ~Throws(probe'.events.items[2])
  /\ probe'.events.items[1].type = "run_end"
  /\ probe'.events.items[2].type = "run_start"
  /\ probe'.events.items[1].data.runId = probe'.events.items[2].data.runId
  /\ IndexOfRun(runs, probe'.events.items[1].data.runId) = 0

\* C32: a run_end event for a runId that is not in the store changes
\* neither the runs map nor the steps map nor the pipeline index, and the
\* ingest answers 200 with success and the number of events; a run_start
\* for that runId ingested afterwards creates the Run in running state, with
\* nothing of the dropped run_end in it.
C32_RunEndDropped ==
  [][/\ (RunEndPosted /\ IndexOfRun(runs, probe'.events.items[1].data.runId) = 0) =>
          /\ runs' = runs
          /\ stepMap' = stepMap
          /\ runsByPipeline' = runsByPipeline
          /\ probeOut'.status = 200
          /\ probeOut'.success
          /\ probeOut'.processed = <<1>>
     /\ (RunStartPosted /\ IndexOfRun(runs, probe'.events.items[1].data.runId) = 0) =>
          runs' = Append(runs, FreshRun(probe'.events.items[1].data))
     /\ EndThenStartPosted =>
          /\ runs' = Append(runs, FreshRun(probe'.events.items[2].data))
          /\ stepMap' = stepMap
          /\ probeOut'.success
          /\ probeOut'.processed = <<2>>
    ]_vars

\* the run_end of run 1 reached the empty store before its run_start: the
\* store holds run 1 as a running Run without duration
C32_Witness ==
  /\ nextId = 2
  /\ probe.op = "ingest"
  /\ probe.events = EndBeforeStartBatch
  /\ probeOut.success
  /\ runs = <<FreshRun(RunStartEvent(1, "p").data)>>
  /\ runs[1].status = "running"
  /\ runs[1].duration = <<>>
  /\ stepMap = <<>>

\* the places <<run, position>> of a stepId in the Run step lists
PlacesOfStep(id) ==
  {<<i, k>> \in (1..Len(runs)) \X (1..MaxIngests) :
     k <= Len(runs[i].steps) /\ runs[i].steps[k].stepId = id}

\* C33: once a stepId is a key of the step map, the Step stored under it
\* never changes, and no stepId occurs more than once across all Run step
\* lists.
C33_StepImmutable ==
  /\ [][\A k \in 1..Len(stepMap) :
          LET m == IndexOfStep(stepMap', stepMap[k].stepId)
          IN m # 0 /\ stepMap'[m] = stepMap[k]]_vars
  /\ [](\A id \in {stepMap[k].stepId : k \in 1..Len(stepMap)} :
          Cardinality(PlacesOfStep(id)) <= 1)

\* the stored Steps whose runId is the key of a Run of that pipeline: the
\* Runs the pipeline filter of list-runs and filter-elimination selects
StepsOfPipelineRuns(p) ==
  {stepMap[k] : k \in {m \in 1..Len(stepMap) :
                         \E i \in 1..Len(runs) :
                           /\ runs[i].runId = stepMap[m].runId
                           /\ runs[i].pipeline = p}}

\* C34: list-steps with pipeline = p (no other filter, default page) returns
\* exactly the stored Steps whose runId resolves to a Run whose pipeline is
\* p.
C34_PipelineJoin ==
  (/\ probe.op = "getSteps"
   /\ probe.q = [NoStepFilters EXCEPT !.pipeline = "p"]) =>
     {probeOut.items[m] : m \in 1..Len(probeOut.items)} = StepsOfPipelineRuns("p")

----------------------------------------------------------------------------
(* Specification of the API server on the event loop.  The handler of POST *)
(* /api/ingest is followed event by event, so that the stores between two  *)
(* events of a batch are states of the model; Node runs one callback at a  *)
(* time and the handlers contain no await, so a request is dispatched only *)
(* when no handler is running.  probe holds the running ingest handler,    *)
(* probeOut the last query and its response, completed the store after     *)
(* each finished ingest call, nextId counts the ingest calls.              *)

MaxLoopIngests == 2    \* POST /api/ingest requests in one behaviour

\* a whole run in one batch
WholeRunBatch ==
  Arr(<<RunStartEvent(1, "p"), StepEvent(1, 1, "filter", "hi"),
        RunEndEvent(1, "success", 5)>>)

\* a further step and the end of run 1
StepAndEndBatch ==
  Arr(<<StepEvent(2, 1, "filter", "low"), RunEndEvent(1, "error", 5)>>)

\* a batch that throws at its second event
ThrowingBatch ==
  Arr(<<RunStartEvent(1, "p"), NullValue, RunEndEvent(1, "success", 5)>>)

LoopBodies ==
  {WholeRunBatch, StepAndEndBatch, ThrowingBatch, RestartBatch,
   EndBeforeStartBatch}

LoopQueries ==
  {[op |-> "getRun", runId |-> 1, q |-> NoFilters],
   [op |-> "getRuns", runId |-> 0, q |-> NoFilters],
   [op |-> "getSteps", runId |-> 0, q |-> NoStepFilters],
   [op |-> "filterElimination", runId |-> 0, q |-> NoFilters],
   [op |-> "pipelineStats", runId |-> 0, q |-> NoFilters]}

\* the response of a query on a store
\* (filter-elimination with threshold 0, stats of pipeline p)
ReadStore(st, request) ==
  CASE request.op = "getRun" -> GetRun(st, request.runId)
    [] request.op = "getRuns" -> GetRuns(st, request.q)
    [] request.op = "getSteps" -> GetSteps(st, request.q)
    [] request.op = "filterElimination" -> GetFilterElimination(st, QNum(0), "")
    [] OTHER -> GetPipelineStats(st, "p")

LoopIdleHandler == [op |-> "idle"]

\* Faulty variant: the ingest handler yields to the event loop between
\* two events
LoopIdle_Yields == TRUE

\* no callback is running: the event loop can dispatch the next request
LoopIdle == probe.op = "idle"

InitLoop ==
  /\ enabled = TRUE
  /\ batchSize = DefaultBatchSize
  /\ runId = 0
  /\ startTime = 0
  /\ steps = <<>>
  /\ pendingEvents = <<>>
  /\ inflight = {}
  /\ completed = <<>>
  /\ awaiting = 0
  /\ calls = <<>>
  /\ ret = 0
  /\ nextId = 1
  /\ emitted = <<>>
  /\ runs = <<>>
  /\ stepMap = <<>>
  /\ runsByPipeline = <<>>
  /\ probe = LoopIdleHandler
  /\ probeOut = NoRequest

\* the handler of POST /api/ingest starts on a body that is an array
IngestStarted ==
  \E body \in LoopBodies :
    /\ probe.op = "idle"
    /\ nextId <= MaxLoopIngests
    /\ probe' = [op |-> "ingest", events |-> body.items, at |-> 0]
    /\ nextId' = nextId + 1
    /\ UNCHANGED <<clientVars, netVars, calls, ret, emitted, storeVars,
                   probeOut>>

\* one turn of events.forEach: the next event of the batch is applied
EventApplied ==
  /\ probe.op = "ingest"
  /\ probe.at < Len(AppliedEvents(probe.events))
  /\ LET st == IngestEvent(Store, probe.events[probe.at + 1])
     IN /\ runs' = st.runs
        /\ stepMap' = st.steps
        /\ runsByPipeline' = st.runsByPipeline
  /\ probe' = [probe EXCEPT !.at = @ + 1]
  /\ UNCHANGED <<clientVars, netVars, callVars, probeOut>>

\* the handler returns: after the last event (res.json) or at the first
\* event that throws (catch block)
IngestFinished ==
  /\ probe.op = "ingest"
  /\ probe.at = Len(AppliedEvents(probe.events))
  /\ probe' = LoopIdleHandler
  /\ completed' = Append(completed, Store)
  /\ UNCHANGED <<clientVars, inflight, awaiting, callVars, storeVars,
                 probeOut>>

\* the handler of a GET request runs and answers from the store as it is
QueryAnswered ==
  \E request \in LoopQueries :
    /\ LoopIdle
    /\ probeOut' = [op |-> request.op, request |-> request,
                    response |-> ReadStore(Store, request)]
    /\ probeOut' # probeOut
    /\ UNCHANGED <<clientVars, netVars, callVars, storeVars, probe>>

NextLoop ==
  \/ IngestStarted
  \/ EventApplied
  \/ IngestFinished
  \/ QueryAnswered

SpecLoop == InitLoop /\ [][NextLoop]_vars

\* the stores at the boundaries of the ingest calls: the empty store and
\* the store after each finished call
BoundaryStores == {EmptyStore} \cup {completed[k] : k \in 1..Len(completed)}

\* C35: every response of a query (get-run, list-runs, list-steps,
\* filter-elimination, stats) is the response that query has on the store
\* as it was before or after a whole ingest call; none is computed from a
\* store between two events of a batch.
C35_IngestAtomic ==
  probeOut.op # "none" =>
    \E st \in BoundaryStores :
      probeOut.response = ReadStore(st, probeOut.request)

\* after the batch of a whole run was ingested, get-run answers with the
\* finished Run and its step; the handler had passed through a store in
\* which the Run was still running
C35_Witness ==
  /\ Len(completed) = 1
  /\ completed[1] = Ingest(EmptyStore, WholeRunBatch.items)
  /\ probeOut.op = "getRun"
  /\ probeOut.response.found
  /\ probeOut.response.run.status = "success"
  /\ Len(probeOut.response.run.steps) = 1

RunKeys(runList) == {runList[i].runId : i \in 1..Len(runList)}

StepKeys(stepList) == {stepList[k].stepId : k \in 1..Len(stepList)}

PipelineKeys(idx) == {idx[j].pipeline : j \in 1..Len(idx)}

\* C36: the store never deletes: over every request, the set of runIds in
\* the runs map, the set of stepIds in the steps map and the set of pipeline
\* names in the index only grow, no runId leaves the index list of a
\* pipeline, and a query leaves the runs map, the steps map and the index
\* exactly as they are.
C36_NeverDeletes ==
  [][/\ RunKeys(runs) \subseteq RunKeys(runs')
     /\ StepKeys(stepMap) \subseteq StepKeys(stepMap')
     /\ PipelineKeys(runsByPipeline) \subseteq PipelineKeys(runsByPipeline')
     /\ \A p \in PipelineKeys(runsByPipeline) :
          PipelineRunIds(runsByPipeline, p)
            \subseteq PipelineRunIds(runsByPipeline', p)
     /\ (probe'.op \notin {"none", "ingest"}) =>
          /\ runs' = runs
          /\ stepMap' = stepMap
          /\ runsByPipeline' = runsByPipeline
    ]_vars

\* run 1 was started in pipeline p with step 1 and then started again in
\* pipeline q, which ended: the Run was overwritten, and the runId, the
\* stepId and both pipeline names are still keys of the store
C36_Witness ==
  /\ nextId = 4
  /\ probe.op = "ingest"
  /\ probe.events = Arr(<<RunEndEvent(1, "success", 5)>>)
  /\ RunKeys(runs) = {1}
  /\ runs[1].pipeline = "q"
  /\ runs[1].steps = <<>>
  /\ runs[1].status = "success"
  /\ StepKeys(stepMap) = {1}
  /\ runsByPipeline = <<[pipeline |-> "p", runIds |-> <<1>>],
                        [pipeline |-> "q", runIds |-> <<1>>]>>

\* C37: for every pipeline name p the index list of p contains exactly the
\* runIds of the Runs whose pipeline is p, each exactly once, and
\* list-pipelines returns only pipelines that have at least one Run
\* (non-null stats).
C37_IndexConsistency ==
  /\ \A j \in 1..Len(runsByPipeline) :
       LET ids == runsByPipeline[j].runIds
       IN /\ SeqRange(ids) =
               {runs[i].runId : i \in {m \in 1..Len(runs) :
                                         runs[m].pipeline = runsByPipeline[j].pipeline}}
          /\ Cardinality(SeqRange(ids)) = Len(ids)
  /\ \A i \in 1..Len(runs) :
       runs[i].runId \in PipelineRunIds(runsByPipeline, runs[i].pipeline)
  /\ probe.op = "getPipelines" =>
       \A k \in 1..Len(probeOut.pipelines) :
         GetPipelineStats(Store, probeOut.pipelines[k]).hasStats

\* C38 (as stated): every Step of the step map whose runId is a key of the
\* runs map stands exactly once in that Run's step list, and every entry of
\* a Run's step list is the Step stored in the step map under its stepId
\* and has that Run's runId.
C38_AsStated ==
  /\ \A k \in 1..Len(stepMap) :
       LET i == IndexOfRun(runs, stepMap[k].runId)
       IN i # 0 =>
            Cardinality({m \in 1..Len(runs[i].steps) :
                           runs[i].steps[m] = stepMap[k]}) = 1
  /\ \A i \in 1..Len(runs) :
       \A m \in 1..Len(runs[i].steps) :
         LET k == IndexOfStep(stepMap, runs[i].steps[m].stepId)
         IN /\ k # 0
            /\ stepMap[k] = runs[i].steps[m]
            /\ runs[i].steps[m].runId = runs[i].runId

\* C38 (amended): every entry of a Run's step list has that Run's runId,
\* and its stepId is a key of the step map; a step event ingested for a
\* runId that is a key of the runs map is stored in the step map under its
\* stepId and becomes the last entry of that Run's step list, and one
\* ingested for an unknown runId changes no Run.
C38_ListsWithinMap ==
  /\ [](\A i \in 1..Len(runs) :
          \A m \in 1..Len(runs[i].steps) :
            /\ runs[i].steps[m].runId = runs[i].runId
            /\ IndexOfStep(stepMap, runs[i].steps[m].stepId) # 0)
  /\ [][StepPosted =>
          LET data == probe'.events.items[1].data
              i == IndexOfRun(runs, data.runId)
              k == IndexOfStep(stepMap', data.stepId)
          IN /\ k # 0
             /\ stepMap'[k] = data
             /\ i = 0 => runs' = runs
             /\ i # 0 =>
                  runs' = [runs EXCEPT ![i].steps = Append(@, data)]]_vars

\* step 1 came with the run_start of run 1 and step 2 in a batch of its
\* own: the step map and the step list of run 1 hold the same two Steps
C38_Witness ==
  /\ nextId = 3
  /\ probe.op = "ingest"
  /\ probe.events = Arr(<<StepEvent(2, 1, "filter", "low")>>)
  /\ Len(runs) = 1
  /\ runs[1].steps = <<StepEvent(1, 1, "filter", "hi").data,
                       StepEvent(2, 1, "filter", "low").data>>
  /\ stepMap = runs[1].steps

\* the place in the order of arrival of the successful request that carried
\* the event of that seq (0: not delivered)
DeliveredAt(seq) ==
  LET at == {k \in 1..Len(completed) :
               /\ completed[k].ok
               /\ \E i \in 1..Len(completed[k].events) :
                    completed[k].events[i].seq = seq}
  IN IF at = {} THEN 0 ELSE CHOOSE k \in at : TRUE

\* the step events emitted for a run
StepEventsOf(id) ==
  {k \in 1..Len(emitted) :
     emitted[k].type = "step" /\ emitted[k].data.runId = id}

\* every request was answered with success and nothing is left to send
AllDelivered ==
  /\ inflight = {}
  /\ pendingEvents = <<>>
  /\ \A k \in 1..Len(completed) : completed[k].ok

\* C39 (as stated): when the client has called startRun, some recordSteps
\* and endRun(s) for a run and every batch was delivered successfully, the
\* store holds the Run with status s and with all recorded steps in its
\* step list, whatever order the batches arrived in.
C39_AsStated ==
  AllDelivered =>
    \A e \in 1..Len(emitted) :
      emitted[e].type = "run_end" =>
        LET id == emitted[e].data.runId
            i == IndexOfRun(runs, id)
        IN /\ i # 0
           /\ runs[i].status = emitted[e].data.status
           /\ {emitted[k].data.stepId : k \in StepEventsOf(id)}
                \subseteq SeqRange(StoredStepIds(id))

\* C39 (amended): the Run in the store depends on the order of arrival.
\* Once the batch with the run_start of a run has arrived, the Run has the
\* status of its run_end if the batch with the run_end arrived with or
\* after the run_start, and is running otherwise (a run_end that arrived
\* first was dropped); its step list holds exactly the steps whose batch
\* arrived with or after the run_start, in order of arrival (a step that
\* arrived first is in the step map only).
C39_ArrivalOrder ==
  \A e \in 1..Len(emitted) :
    (emitted[e].type = "run_start" /\ DeliveredAt(emitted[e].seq) # 0) =>
      LET id == emitted[e].data.runId
          a == DeliveredAt(emitted[e].seq)
          i == IndexOfRun(runs, id)
          ends == {k \in 1..Len(emitted) :
                     /\ emitted[k].type = "run_end"
                     /\ emitted[k].data.runId = id
                     /\ DeliveredAt(emitted[k].seq) >= a}
          ids == StoredStepIds(id)
      IN /\ i # 0
         /\ ends = {} => runs[i].status = "running"
         /\ \A k \in ends : runs[i].status = emitted[k].data.status
         /\ SeqRange(ids) =
              {emitted[k].data.stepId :
                 k \in {m \in StepEventsOf(id) : DeliveredAt(emitted[m].seq) >= a}}
         /\ \A m, n \in 1..Len(ids) :
              m < n =>
                \/ DeliveredAt(ids[m]) < DeliveredAt(ids[n])
                \/ DeliveredAt(ids[m]) = DeliveredAt(ids[n]) /\ ids[m] < ids[n]
         /\ \A k \in StepEventsOf(id) :
              DeliveredAt(emitted[k].seq) # 0 =>
                IndexOfStep(stepMap, emitted[k].data.stepId) # 0

\* the three batches of a run (batchSize 1) all arrived, the step and the
\* run_end ahead of the run_start: the Run is running and has no steps,
\* the step is in the step map
C39_Witness ==
  /\ AllDelivered
  /\ Len(emitted) = 3
  /\ emitted[1].type = "run_start"
  /\ emitted[2].type = "step"
  /\ emitted[3].type = "run_end"
  /\ emitted[3].data.status = "success"
  /\ DeliveredAt(3) = 2
  /\ DeliveredAt(1) = 3
  /\ Len(runs) = 1
  /\ runs[1].status = "running"
  /\ runs[1].steps = <<>>
  /\ Len(stepMap) = 1

----------------------------------------------------------------------------
(* Specification of client, network and store in which every network       *)
(* request completes: fetch settles, by a response or by a failure.  The   *)
(* calls of the pipeline code are under no fairness: the client has no     *)
(* timer, so nothing obliges a call to happen.                             *)

Responded == Deliver \/ Fail

\* a batchSize that lets an automatic flush and a leftover in the pending
\* buffer both happen within MaxCalls calls
LiveBatchSize == 2

InitLive == Init /\ batchSize = LiveBatchSize

SpecLive == InitLive /\ [][Next]_vars /\ WF_vars(Responded)

\* the event of that seq was emitted
IsEmitted(seq) == \E k \in 1..Len(emitted) : emitted[k].seq = seq

\* flush() was called after the call that emitted the event of that seq
FlushedAfter(seq) ==
  \E k \in (seq + 1)..Len(calls) : calls[k].op = "flush"

\* the event of that seq is in the pending buffer
InPending(seq) ==
  \E k \in 1..Len(pendingEvents) : pendingEvents[k].seq = seq

\* the request that carried the event was answered: with success, so the
\* event is in the store, or with a failure that reached the error handler
Settled(seq) ==
  \E k \in 1..Len(completed) :
    /\ \E i \in 1..Len(completed[k].events) : completed[k].events[i].seq = seq
    /\ completed[k].ok \/ completed[k].handler >= 1

\* C40: when every network request completes, an emitted event that has
\* left the pending buffer, or after whose emission flush() was called, is
\* eventually delivered to the store or reported to the error handler with
\* its failed batch.  The pending buffer itself changes only in a call of
\* the pipeline code (no timer empties it, and no response touches it), so
\* without that flush an event that no automatic flush took stays pending
\* for as long as no call is made.
C40_DeliveryLiveness ==
  /\ \A seq \in 1..MaxCalls :
       (IsEmitted(seq) /\ (FlushedAfter(seq) \/ ~InPending(seq)))
         ~> Settled(seq)
  /\ [][pendingEvents' # pendingEvents => Len(calls') = Len(calls) + 1]_vars
  /\ [](\A seq \in 1..MaxCalls : InPending(seq) => ~Settled(seq))

\* an event was emitted below batchSize, flush() was called after it, and
\* its request was answered with a failure that reached the error handler
C40_Witness ==
  /\ Len(emitted) = 1
  /\ FlushedAfter(1)
  /\ Len(completed) = 1
  /\ ~completed[1].ok
  /\ completed[1].handler = 1
  /\ completed[1].kind = "flush"
  /\ Settled(1)
  /\ pendingEvents = <<>>

====
